---- MODULE Spec2Model ----
(***************************************************************************)
(* Model of the video extraction pipeline of anyuan-chen/commis:           *)
(*   VideoExtractor (src/src/services/video-extractor.js),                 *)
(*   ExtractionLogger (src/src/services/extraction-logger.js),             *)
(*   GeminiVision.extractRestaurantData (src/src/services/gemini-vision.js)*)
(*                                                                         *)
(* One call of extractWithFallback is modelled.  Every await of the code   *)
(* is a point where the model may interleave the other in-flight calls;    *)
(* the code between two awaits is one atomic step.  Remote, local and      *)
(* storage calls answer nondeterministically (return or throw).            *)
(*                                                                         *)
(* Numbers: confidences are in hundredths; scores are exact rationals      *)
(* scaled by Scale (a score of 1.0 is Scale).                              *)
(***************************************************************************)
EXTENDS Integers, Sequences, FiniteSets, TLC

\* ------------------------------------------------------------------ bounds
\* most status polls of the uploaded file that answer PROCESSING
MaxPolls == 1
\* most menu items a model response carries
MaxItems == 3
\* most frames a model response carries / frames of a scorer input
MaxFrames == 9
\* most calls that throw (remote, local or storage) in one execution
MaxFaults == 2
\* only the first MaxFailingFrames selected frames can fail to materialize
MaxFailingFrames == 1
\* longest video duration handed to the frame-selection fallback, in seconds
MaxDuration == 60
\* most saves in one history of the ledger
MaxSaves == 102
NumSavers == 3

\* ------------------------------------------------------- program constants
\* frameCount of the frame-selection fallback
FallbackFrameCount == 10
\* confidence given to unverified menu items (0.7), in hundredths
DefaultConfidence == 70
\* "Keep only last 100 runs"
IndexLimit == 100
\* extractFrameBased asks VideoProcessor.extractFrames for at most 25 frames
MaxSampled == 25
\* extractRestaurantData sends the model at most 15 of them
MaxAnalyzed == 15

\* ----------------------------------------------------------- small helpers
Null == <<>>
Some(x) == <<x>>
IsNull(o) == o = <<>>
Min(a, b) == IF a < b THEN a ELSE b
Max(a, b) == IF a > b THEN a ELSE b

RECURSIVE Fact(_)
Fact(n) == IF n <= 1 THEN 1 ELSE n * Fact(n - 1)

\* a score of 1.0; divisible by every denominator the scorer uses
Scale == 120000 * Fact(MaxItems)

RECURSIVE SumSeq(_)
SumSeq(s) == IF s = <<>> THEN 0 ELSE Head(s) + SumSeq(Tail(s))

\* ---------------------------------------------------------- error kinds
\* error.message of the errors the pipeline can meet
RemoteCallFailure == "RemoteCallFailure"
MediaRejected == "Video processing failed in Gemini File API"
LocalFailure == "LocalFailure"
StorageFailure == "StorageFailure"
ParseFailure == "Failed to parse restaurant data"
NoError == "null"

\* ------------------------------------------------------------ style values
DefaultStyle ==
  [theme |-> "modern", primaryColor |-> "#2563eb", secondaryColor |-> "#f59e0b",
   mood |-> "warm", fontStyle |-> "sans-serif"]

\* description 'A local restaurant.' has 19 characters
DefaultInfo ==
  [name |-> Null, cuisineType |-> "Restaurant", descLen |-> 19,
   ambiance |-> "casual", confidence |-> Some(0)]

\* --------------------------------------------------------- QualityScorer
\* (i.confidence || 0)
ConfOrZero(i) == IF IsNull(i.confidence) THEN 0 ELSE i.confidence[1]
\* i.needsReview as a truth value
Truthy(b) == ~IsNull(b) /\ b[1]

MenuItemsOf(result) == result.menuItems.items

\* sum of the confidences of the items, in hundredths
ConfSum(items) == SumSeq([k \in 1..Len(items) |-> ConfOrZero(items[k])])

NeedsReviewCount(items) == Len(SelectSeq(items, LAMBDA i : Truthy(i.needsReview)))

\* avgConfidence < 0.6
LowAvgConfidence(items) == ConfSum(items) < 60 * Len(items)

\* MenuScore altered: the item count is not capped at 5
MenuScoreUncapped(items) ==
  LET n == Len(items)
      d == Max(n, 1)
      nr == NeedsReviewCount(items)
  IN (Scale \div 25) * 2 * n
     + (Scale \div (10 * d)) * 3 * (d - nr)
     + (IF n > 0 THEN (Scale \div (1000 * n)) * 3 * ConfSum(items) ELSE 0)

\* scores.menu
MenuScore(items) ==
  LET n == Len(items)
      d == Max(n, 1)
      nr == NeedsReviewCount(items)
  IN (Scale \div 25) * 2 * Min(5, n)
     + (Scale \div (10 * d)) * 3 * (d - nr)
     + (IF n > 0 THEN (Scale \div (1000 * n)) * 3 * ConfSum(items) ELSE 0)

HasName(info) == ~IsNull(info.name)
\* info.confidence?.name || 0
NameConfidence(info) == IF IsNull(info.confidence) THEN 0 ELSE info.confidence[1]
HasCuisine(info) == info.cuisineType # "" /\ info.cuisineType # "Restaurant"
HasDescription(info) == info.descLen > 20

\* scores.restaurantInfo
InfoScore(info) ==
  (Scale \div 10) * ((IF HasName(info) THEN 4 ELSE 0)
                     + (IF HasCuisine(info) THEN 3 ELSE 0)
                     + (IF HasDescription(info) THEN 3 ELSE 0))

FrameTypes(frames) == {frames[k].type : k \in 1..Len(frames)}
HighPriorityFrames(frames) == Len(SelectSeq(frames, LAMBDA f : f.priority = "high"))

\* scores.frames
FramesScore(frames) ==
  LET t == FrameTypes(frames)
      h == HighPriorityFrames(frames)
  IN (IF Len(frames) >= 8 THEN (Scale \div 10) * 3 ELSE (Scale \div 80) * 3 * Len(frames))
     + (IF "food" \in t THEN Scale \div 5 ELSE 0)
     + (IF "exterior" \in t THEN (Scale \div 20) * 3 ELSE 0)
     + (IF "interior" \in t THEN (Scale \div 20) * 3 ELSE 0)
     + (IF h >= 3 THEN Scale \div 5 ELSE (Scale \div 15) * h)

IsDefaultStyle(style) == style.primaryColor = "#2563eb" /\ style.theme = "modern"

\* scores.style
StyleScore(style) == IF IsDefaultStyle(style) THEN (Scale \div 10) * 3 ELSE Scale

\* overall, before rounding
OverallScore(result) ==
  (MenuScore(MenuItemsOf(result)) \div 20) * 7
  + InfoScore(result.restaurantInfo) \div 4
  + FramesScore(result.frames) \div 4
  + (StyleScore(result.style) \div 20) * 3

Issue(t, c, m) == [type |-> t, category |-> c, message |-> m]

MenuIssues(items) ==
  LET n == Len(items)
      nr == NeedsReviewCount(items)
      priced == Len(SelectSeq(items, LAMBDA i : ~IsNull(i.price)))
  IN (IF n = 0 THEN <<Issue("critical", "menu", "No menu items found")>>
      ELSE IF n < 3 THEN <<Issue("warning", "menu", "Only few menu items found")>>
      ELSE <<>>)
     \o (IF n > 0 /\ nr = n
         THEN <<Issue("warning", "menu", "All menu items need review")>> ELSE <<>>)
     \o (IF n > 0 /\ LowAvgConfidence(items)
         THEN <<Issue("warning", "menu", "Low average confidence")>> ELSE <<>>)
     \o (IF n > 0 /\ priced = 0
         THEN <<Issue("warning", "menu", "No prices detected on any items")>> ELSE <<>>)

InfoIssues(info) ==
  (IF ~HasName(info)
   THEN <<Issue("warning", "info", "Restaurant name not detected")>>
   ELSE IF NameConfidence(info) < 70
        THEN <<Issue("warning", "info", "Low confidence on restaurant name")>>
        ELSE <<>>)
  \o (IF ~HasCuisine(info)
      THEN <<Issue("warning", "info", "Cuisine type not identified")>> ELSE <<>>)

\* FrameIssues altered: no frames is only a warning
FrameIssuesNoCritical(frames) ==
  LET t == FrameTypes(frames)
  IN (IF Len(frames) < 5
      THEN <<Issue("warning", "frames", "Only few frames extracted")>>
      ELSE <<>>)
     \o (IF "food" \notin t
         THEN <<Issue("warning", "frames", "No food photos detected")>> ELSE <<>>)
     \o (IF "exterior" \notin t /\ "interior" \notin t
         THEN <<Issue("warning", "frames", "No exterior or interior shots")>> ELSE <<>>)

FrameIssues(frames) ==
  LET t == FrameTypes(frames)
  IN (IF Len(frames) = 0 THEN <<Issue("critical", "frames", "No frames extracted")>>
      ELSE IF Len(frames) < 5
           THEN <<Issue("warning", "frames", "Only few frames extracted")>>
           ELSE <<>>)
     \o (IF "food" \notin t
         THEN <<Issue("warning", "frames", "No food photos detected")>> ELSE <<>>)
     \o (IF "exterior" \notin t /\ "interior" \notin t
         THEN <<Issue("warning", "frames", "No exterior or interior shots")>> ELSE <<>>)

\* StyleIssues altered: default styling raises no issue
StyleIssuesNone(style) == <<>>

StyleIssues(style) ==
  IF IsDefaultStyle(style)
  THEN <<Issue("warning", "style", "Using default styling")>> ELSE <<>>

AllIssues(result) ==
  MenuIssues(MenuItemsOf(result)) \o InfoIssues(result.restaurantInfo)
  \o FrameIssues(result.frames) \o StyleIssues(result.style)

HasCritical(issues) == \E k \in 1..Len(issues) : issues[k].type = "critical"

\* Rating altered: the critical issues are not looked at
RatingIgnoresCritical(overall, issues) ==
  IF overall * 5 >= Scale * 4 /\ Len(issues) = 0 THEN "good"
  ELSE IF overall * 5 >= Scale * 3 THEN "fair"
  ELSE "poor"

\* Rating altered: "good" is given on the score alone
RatingGoodOnScore(overall, issues) ==
  IF HasCritical(issues) THEN "poor"
  ELSE IF overall * 5 >= Scale * 4 THEN "good"
  ELSE IF overall * 5 >= Scale * 3 THEN "fair"
  ELSE "poor"

\* the rating ladder of assessQuality
Rating(overall, issues) ==
  IF HasCritical(issues) THEN "poor"
  ELSE IF overall * 5 >= Scale * 4 /\ Len(issues) = 0 THEN "good"
  ELSE IF overall * 5 >= Scale * 3 THEN "fair"
  ELSE "poor"

\* parseFloat(x.toFixed(2)), in hundredths
Round2(x) == (x + Scale \div 200) \div (Scale \div 100)

assessQuality(result) ==
  LET issues == AllIssues(result)
      overall == OverallScore(result)
  IN [rating |-> Rating(overall, issues),
      overall |-> Round2(overall),
      scores |-> [menu |-> Round2(MenuScore(MenuItemsOf(result))),
                  restaurantInfo |-> Round2(InfoScore(result.restaurantInfo)),
                  frames |-> Round2(FramesScore(result.frames)),
                  style |-> Round2(StyleScore(result.style))],
      issues |-> issues,
      summary |-> [menuItems |-> Len(MenuItemsOf(result)),
                   menuNeedsReview |-> NeedsReviewCount(MenuItemsOf(result)),
                   framesExtracted |-> Len(result.frames),
                   frameTypes |-> FrameTypes(result.frames),
                   hasRestaurantName |-> HasName(result.restaurantInfo),
                   isDefaultStyle |-> IsDefaultStyle(result.style)]]

\* ------------------------------------------------------------ the state
VARIABLES
  runs,            \* the ExtractionLogger objects created so far, in creation order
  logger,          \* this.logger: index into runs, 0 for null
  pc,              \* where extractWithFallback / extract is suspended
  saveStep,        \* "save" while the caller is suspended in logger.save()
  persisted,       \* <runId>.json files of the extraction-logs directory
  index,           \* index.json
  storageFailed,   \* history: some storage call has thrown
  faults,          \* history: how many calls have thrown
  remote,          \* the file held by the remote File API
  file,            \* extract's local variable file
  pollCount,       \* uploadVideo's pollCount
  stPc,            \* position of each of the three concurrent stages
  stStep,          \* the step tracker each stage holds: <<run, step>>
  stParse,         \* history: a stage's response failed to parse
  paErr,           \* the rejection Promise.all settled with
  duration,        \* metadata.duration
  frames,          \* what selectKeyFrames returned
  pass1Items,      \* extractMenuTwoPass's items after pass 1
  menuResult,      \* what extractMenuTwoPass returned
  info,            \* what extractRestaurantInfo returned
  style,           \* what extractStyle returned
  frameIdx,        \* position of extractFramesFromTimestamps's loop
  extractedFrames, \* its extractedFrames
  failures,        \* its failures
  pending,         \* how extract's try/catch ended, while finally runs
  extractExit,     \* how extract returned to extractWithFallback
  fbFrames,        \* extractFrameBased's frames (paths)
  outcome,         \* how extractWithFallback ended
  qInput,          \* scorer harness: the result handed to assessQuality
  qReport,         \* scorer harness: the report it returned
  qAgain,          \* scorer harness: the report of a second call on the same result
  hDuration,       \* frame-selection harness: the duration handed to selectKeyFrames
  hFrames,         \* frame-selection harness: the frames its parse fallback returned
  saveOrder,       \* ledger harness: the run ids in the order they were saved
  savers,          \* concurrent-save harness: each save() call's position and the index it read
  fixed            \* interleaving harness: the responses the remote calls will give

pipeVars ==
  <<runs, logger, pc, saveStep, persisted, index, storageFailed, faults,
    remote, file, pollCount, stPc, stStep, stParse, paErr, duration, frames, pass1Items,
    menuResult, info, style, frameIdx, extractedFrames, failures, pending,
    extractExit, fbFrames, outcome>>
qVars == <<qInput, qReport, qAgain, hDuration, hFrames, saveOrder, savers, fixed>>
vars == <<pipeVars, qVars>>

StageNames == {"frames", "menu", "info"}

\* ------------------------------------------------------ ExtractionLogger
\* new ExtractionLogger(): uuidv4 gives an identifier no earlier run has
NewLogger(rs) ==
  [runId |-> Len(rs) + 1, status |-> "running", endTime |-> "null",
   error |-> NoError, result |-> Null, quality |-> Null,
   metadata |-> [usedFallback |-> FALSE, nativeError |-> NoError],
   steps |-> <<>>]

\* Date.now() at a startStep: the clock ticks once per step started
Now(rs) == SumSeq([r \in 1..Len(rs) |-> Len(rs[r].steps)]) + 1

NewStep(name, now) ==
  [name |-> name, startTime |-> now, status |-> "running", endTime |-> "null",
   output |-> Null,
   error |-> NoError, warnings |-> <<>>]

\* logger.startStep(name): the step is pushed on the logger's steps
\* startStep altered: the step is put in front of the logger's steps
startStepUnshift(rs, r, name) ==
  [rs EXCEPT ![r].steps = <<NewStep(name, Now(rs))>> \o @]

startStep(rs, r, name) == [rs EXCEPT ![r].steps = Append(@, NewStep(name, Now(rs)))]
\* the tracker startStep returns, as <<run, step>>
TrackerOf(rs, r) == <<r, Len(rs[r].steps) + 1>>

StepOf(rs, ref) == rs[ref[1]].steps[ref[2]]

StepSetOutput(rs, ref, out) == [rs EXCEPT ![ref[1]].steps[ref[2]].output = out]

StepAddWarning(rs, ref, w) ==
  [rs EXCEPT ![ref[1]].steps[ref[2]].warnings = Append(@, w)]

StepComplete(rs, ref, out) ==
  [rs EXCEPT ![ref[1]].steps[ref[2]] =
     [@ EXCEPT !.status = "completed", !.endTime = "set",
               !.output = IF ~IsNull(out) THEN out ELSE @]]

\* StepFail altered: the error is not recorded
StepFailNoError(rs, ref, err) ==
  [rs EXCEPT ![ref[1]].steps[ref[2]] =
     [@ EXCEPT !.status = "failed", !.endTime = "set"]]

StepFail(rs, ref, err) ==
  [rs EXCEPT ![ref[1]].steps[ref[2]] =
     [@ EXCEPT !.status = "failed", !.endTime = "set", !.error = err]]

\* LoggerComplete altered: the quality is not assessed
LoggerCompleteNoQuality(rs, r, result) ==
  [rs EXCEPT ![r] = [@ EXCEPT !.status = "completed", !.endTime = "set",
                              !.result = Some(result)]]

\* logger.complete(result); every result the pipeline builds is an object (truthy)
LoggerComplete(rs, r, result) ==
  [rs EXCEPT ![r] = [@ EXCEPT !.status = "completed", !.endTime = "set",
                              !.result = Some(result),
                              !.quality = Some(assessQuality(result))]]

\* logger.fail(error)
LoggerFail(rs, r, err) ==
  [rs EXCEPT ![r] = [@ EXCEPT !.status = "failed", !.endTime = "set", !.error = err]]

\* the summary updateIndex unshifts
Summary(run) ==
  [runId |-> run.runId, status |-> run.status,
   stepCount |-> Len(run.steps),
   failedSteps |-> Len(SelectSeq(run.steps, LAMBDA st : st.status = "failed")),
   quality |-> IF IsNull(run.quality) THEN Null
               ELSE Some([rating |-> run.quality[1].rating,
                          overall |-> run.quality[1].overall,
                          issueCount |-> Len(run.quality[1].issues)]),
   error |-> run.error]

\* updateIndex altered: the index is not cut
updateIndexUncut(idx, run) ==
  <<Summary(run)>> \o SelectSeq(idx, LAMBDA e : e.runId # run.runId)

\* updateIndex: drop the run's old entry, put the new one first, keep 100
updateIndex(idx, run) ==
  LET rest == SelectSeq(idx, LAMBDA e : e.runId # run.runId)
      all == <<Summary(run)>> \o rest
  IN SubSeq(all, 1, Min(Len(all), IndexLimit))

\* -------------------------------------------------- what the calls answer
\* timestamps are in elevenths of a second (the fallback interval is duration/11)
TypeCycle ==
  <<"food", "exterior", "interior", "menu", "signage", "ambiance", "staff", "kitchen">>
PriorityCycle == <<"high", "medium", "high", "low">>

FrameAt(k) ==
  [timestamp |-> 11 * 3 * k, type |-> TypeCycle[((k - 1) % 8) + 1],
   priority |-> PriorityCycle[((k - 1) % 4) + 1]]

\* parsed.frames of a frame-selection response
FrameResponses == {[k \in 1..n |-> FrameAt(k)] : n \in {0, 1, 2}}

\* metadata.duration, in seconds
Durations == {30}

\* a pass-1 item; every second one already carries confidence / needsReview
Pass1Item(k) ==
  IF k % 2 = 1
  THEN [name |-> k, price |-> Some(12), confidence |-> Null, needsReview |-> Null]
  ELSE [name |-> k, price |-> Null, confidence |-> Some(95), needsReview |-> Some(FALSE)]

\* parsed1.items of a pass-1 response
Pass1Responses == {[k \in 1..n |-> Pass1Item(k)] : n \in {0, MaxItems}}

ConfCycle == <<90, 40, 80>>

\* pass 2 confirms the items: confidences 0.9, 0.4, 0.8, ..., the second flagged
Verified(items) ==
  [k \in 1..Len(items) |->
     [items[k] EXCEPT !.confidence = Some(ConfCycle[((k - 1) % 3) + 1]),
                      !.needsReview = Some(k = 2)]]

\* pass 2 answers without confidences, or with one outside 0..1 (95, as a
\* percentage)
Unvalidated(items) ==
  [k \in 1..Len(items) |->
     [items[k] EXCEPT !.confidence = IF k % 2 = 1 THEN Null ELSE Some(9500),
                      !.needsReview = Null]]

\* parsed2.items of a pass-2 response to the pass-1 items
Pass2Responses(items) == {<<>>, Verified(items), Unvalidated(items)}

InfoResponses ==
  {[name |-> Some("Luigi's"), cuisineType |-> "Italian", descLen |-> 40,
    ambiance |-> "fine-dining", confidence |-> Some(90)]}

StyleResponses ==
  {[theme |-> "rustic", primaryColor |-> "#8b0000", secondaryColor |-> "#f59e0b",
    mood |-> "warm", fontStyle |-> "serif"]}

\* how many frame files VideoProcessor.extractFrames produced
FbFrameCounts == {3}

\* the JSON the frame-based prompt is answered with
FbResponses ==
  {[restaurantName |-> Some("Luigi's"), cuisineType |-> "Italian", descLen |-> 40,
    styleTheme |-> "rustic", primaryColor |-> "#8b0000",
    menuItems |-> Some(<<[name |-> 1, category |-> "mains", estimatedPrice |-> Some(9)],
                         [name |-> 2, category |-> "", estimatedPrice |-> Null]>>),
    photos |-> Some(<<[frameIndex |-> Some(0), type |-> "food"],
                      [frameIndex |-> Null, type |-> "interior"]>>)],
   [restaurantName |-> Null, cuisineType |-> "", descLen |-> 0,
    styleTheme |-> "", primaryColor |-> "",
    menuItems |-> Null, photos |-> Null]}

\* ------------------------------------------------------- pure stage parts
\* FallbackFrames altered: the timestamps start one interval late
FallbackFramesShifted(d) ==
  [i \in 1..FallbackFrameCount |->
     [timestamp |-> d * (i + 1), type |-> "unknown", priority |-> "medium"]]

\* frame-selection fallback: 10 evenly spaced timestamps
FallbackFrames(d) ==
  [i \in 1..FallbackFrameCount |->
     [timestamp |-> d * i, type |-> "unknown", priority |-> "medium"]]

\* WithDefaultConfidence altered: the item's own fields win over the defaults
WithDefaultConfidenceKeepsOwn(items) ==
  [k \in 1..Len(items) |->
     [items[k] EXCEPT !.confidence = IF IsNull(@) THEN Some(DefaultConfidence) ELSE @,
                      !.needsReview = IF IsNull(@) THEN Some(TRUE) ELSE @]]

\* items.map(item => ({...item, confidence: 0.7, needsReview: true}))
WithDefaultConfidence(items) ==
  [k \in 1..Len(items) |->
     [items[k] EXCEPT !.confidence = Some(DefaultConfidence),
                      !.needsReview = Some(TRUE)]]

\* UnverifiedMenu altered: the fallback menu is marked verified
UnverifiedMenuMarkedVerified(items) ==
  [items |-> WithDefaultConfidence(items), verified |-> TRUE]

\* pass 2 failed: the pass-1 items, unverified
UnverifiedMenu(items) == [items |-> WithDefaultConfidence(items), verified |-> FALSE]

\* the frame extractFramesFromTimestamps pushes for a selected frame
Materialized(f) ==
  [path |-> Some(f.timestamp), type |-> f.type, priority |-> f.priority,
   timestamp |-> f.timestamp]

\* frames[k], k counted from 0; undefined outside the array
PathAt(fs, k) == IF k >= 0 /\ k < Len(fs) THEN Some(fs[k + 1]) ELSE Null

\* frames[photo.frameIndex] || frames[i]
PhotoPath(fs, photo, i) ==
  LET byIndex == IF IsNull(photo.frameIndex) THEN Null
                 ELSE PathAt(fs, photo.frameIndex[1])
  IN IF ~IsNull(byIndex) THEN byIndex ELSE PathAt(fs, i)

\* ConvertFrameBased altered: the items and the name are given as certain
ConvertFrameBasedConfident(data, fs) ==
  [frames |->
     IF IsNull(data.photos) THEN <<>>
     ELSE [i \in 1..Len(data.photos[1]) |->
             [path |-> PhotoPath(fs, data.photos[1][i], i - 1),
              type |-> data.photos[1][i].type, priority |-> "medium"]],
   menuItems |->
     [items |->
        IF IsNull(data.menuItems) THEN <<>>
        ELSE [k \in 1..Len(data.menuItems[1]) |->
                [name |-> data.menuItems[1][k].name,
                 price |-> data.menuItems[1][k].estimatedPrice,
                 confidence |-> Some(100),
                 needsReview |-> Some(FALSE)]],
      verified |-> TRUE],
   restaurantInfo |->
     [name |-> data.restaurantName, cuisineType |-> data.cuisineType,
      descLen |-> data.descLen, ambiance |-> "casual", confidence |-> Some(100)],
   style |->
     [theme |-> IF data.styleTheme # "" THEN data.styleTheme ELSE "modern",
      primaryColor |-> IF data.primaryColor # "" THEN data.primaryColor ELSE "#2563eb",
      secondaryColor |-> "#f59e0b", mood |-> "warm", fontStyle |-> "sans-serif"]]

\* extractFrameBased: "Convert to new format"
ConvertFrameBased(data, fs) ==
  [frames |->
     IF IsNull(data.photos) THEN <<>>
     ELSE [i \in 1..Len(data.photos[1]) |->
             [path |-> PhotoPath(fs, data.photos[1][i], i - 1),
              type |-> data.photos[1][i].type, priority |-> "medium"]],
   menuItems |->
     [items |->
        IF IsNull(data.menuItems) THEN <<>>
        ELSE [k \in 1..Len(data.menuItems[1]) |->
                [name |-> data.menuItems[1][k].name,
                 price |-> data.menuItems[1][k].estimatedPrice,
                 confidence |-> Some(DefaultConfidence),
                 needsReview |-> Some(TRUE)]],
      verified |-> FALSE],
   restaurantInfo |->
     [name |-> data.restaurantName, cuisineType |-> data.cuisineType,
      descLen |-> data.descLen, ambiance |-> "casual", confidence |-> Null],
   style |->
     [theme |-> IF data.styleTheme # "" THEN data.styleTheme ELSE "modern",
      primaryColor |-> IF data.primaryColor # "" THEN data.primaryColor ELSE "#2563eb",
      secondaryColor |-> "#f59e0b", mood |-> "warm", fontStyle |-> "sans-serif"]]

\* ------------------------------------------------------------ initial state
EmptyResult ==
  [frames |-> <<>>, menuItems |-> [items |-> <<>>, verified |-> FALSE],
   restaurantInfo |-> DefaultInfo, style |-> DefaultStyle]

NoCompletion == [kind |-> "none", err |-> NoError]
Return == [kind |-> "return", err |-> NoError]
Throw(err) == [kind |-> "throw", err |-> err]

StepHolders == StageNames \cup {"upload", "metadata", "style", "materialize"}

\* everything but the loggers
InitRest ==
  /\ pc = "start"
  /\ saveStep = "none"
  /\ persisted = [id \in 1..2 |-> Null]
  /\ index = <<>>
  /\ storageFailed = FALSE
  /\ faults = 0
  /\ remote = [state |-> "none", uploaded |-> FALSE, polls |-> 0, deleteCalls |-> 0,
               deleted |-> FALSE]
  /\ file = "null"
  /\ pollCount = 0
  /\ stPc = [n \in StageNames |-> "idle"]
  /\ stStep = [n \in StepHolders |-> <<0, 0>>]
  /\ stParse = [n \in StageNames \cup {"style"} |-> FALSE]
  /\ paErr = NoError
  /\ duration = 0
  /\ frames = <<>>
  /\ pass1Items = <<>>
  /\ menuResult = [items |-> <<>>, verified |-> FALSE]
  /\ info = DefaultInfo
  /\ style = DefaultStyle
  /\ frameIdx = 0
  /\ extractedFrames = <<>>
  /\ failures = <<>>
  /\ pending = NoCompletion
  /\ extractExit = NoCompletion
  /\ fbFrames = <<>>
  /\ outcome = [kind |-> "pending", result |-> Null, err |-> NoError]

InitPipe == runs = <<>> /\ logger = 0 /\ InitRest

\* the harness variables at rest
InitHarness ==
  /\ qInput = EmptyResult /\ qReport = Null /\ qAgain = Null
  /\ hDuration = 0 /\ hFrames = Null
  /\ saveOrder = <<>> /\ savers = <<>> /\ fixed = <<>>

Init == InitPipe /\ InitHarness

\* a call throws: one more fault, within the bound
Fault == faults < MaxFaults /\ faults' = faults + 1
NoFault == UNCHANGED faults

\* ----------------------------------------------- leaving extract's try block
\* cleanup altered: a failing deleteFile propagates
cleanupPropagates(deleteOk, completion) ==
  IF deleteOk THEN completion ELSE Throw(RemoteCallFailure)

\* cleanup(file): a failing deleteFile is caught and only logged, so the
\* completion of the try/catch block stands
cleanup(deleteOk, completion) == completion

\* FallbackLogger altered: the metadata does not flag the fallback
FallbackLoggerUnflagged(rs, nativeErr) ==
  [NewLogger(rs) EXCEPT !.metadata = [usedFallback |-> FALSE, nativeError |-> nativeErr]]

\* the logger extractWithFallback creates for the fallback attempt
FallbackLogger(rs, nativeErr) ==
  [NewLogger(rs) EXCEPT !.metadata = [usedFallback |-> TRUE, nativeError |-> nativeErr]]

\* OnExtractThrow altered: the primary error is surfaced, no fallback is tried
OnExtractThrowRethrows(rs, completion) ==
  /\ runs' = rs
  /\ outcome' = [kind |-> "threw", result |-> Null, err |-> completion.err]
  /\ pc' = "done"
  /\ UNCHANGED logger

\* extractWithFallback's catch: a new logger, then extractFrameBased is called
\* and suspends in VideoProcessor.extractFrames
OnExtractThrow(rs, completion) ==
  /\ runs' = Append(rs, FallbackLogger(rs, completion.err))
  /\ logger' = Len(rs) + 1
  /\ pc' = "fbExtractFrames"
  /\ UNCHANGED outcome

\* ExitExtract altered: extractWithFallback is never resumed
ExitExtractNeverResumes(rs, completion) ==
  /\ extractExit' = completion
  /\ runs' = rs
  /\ pc' = "abandoned"
  /\ UNCHANGED <<logger, outcome>>

\* extract has returned or thrown to extractWithFallback
ExitExtract(rs, completion) ==
  /\ extractExit' = completion
  /\ IF completion.kind = "return"
     THEN /\ runs' = rs
          /\ outcome' = [kind |-> "returned", result |-> rs[1].result, err |-> NoError]
          /\ pc' = "done"
          /\ UNCHANGED logger
     ELSE OnExtractThrow(rs, completion)

\* the try/catch of extract ends with completion; the finally block runs
Finally(rs, completion) ==
  /\ pending' = completion
  /\ saveStep' = "none"
  /\ IF file # "null"
     THEN /\ remote' = [remote EXCEPT !.deleteCalls = @ + 1]
          /\ pc' = "cleanup"
          /\ runs' = rs
          /\ UNCHANGED <<logger, extractExit, outcome>>
     ELSE /\ ExitExtract(rs, completion)
          /\ UNCHANGED remote

\* extract's catch (err): this.logger.fail(err); await this.logger.save()
Catch(rs, err) ==
  /\ runs' = LoggerFail(rs, logger, err)
  /\ pending' = Throw(err)
  /\ pc' = "saveFail"
  /\ saveStep' = "save"

\* --------------------------------------------------------------- uploadVideo
ExtractWithFallback ==
  /\ NoFault
  /\ pc = "start"
  /\ runs' = startStep(<<NewLogger(runs)>>, 1, "upload_video")
  /\ logger' = 1
  /\ stStep' = [stStep EXCEPT !["upload"] = <<1, 1>>]
  /\ pc' = "uploadFile"
  /\ UNCHANGED <<saveStep, persisted, index, storageFailed, remote, file,
                 pollCount, stPc, stParse, paErr, duration, frames, pass1Items,
                 menuResult, info, style, frameIdx, extractedFrames, failures,
                 pending, extractExit, fbFrames, outcome, qVars>>

\* UploadOutput altered: the polls are not counted
UploadOutputNoCount(state, n) == [state |-> state, pollCount |-> 0]

\* the output uploadVideo completes its step with
UploadOutput(state, n) == [state |-> state, pollCount |-> n]

\* uploadVideo sees the file in this state, after the upload or after a poll,
\* the polls-th one answered
FileState(state, polls) ==
  /\ remote' = [remote EXCEPT !.state = state, !.uploaded = TRUE, !.polls = polls]
  /\ IF state = "PROCESSING"
     THEN /\ pollCount < MaxPolls
          /\ pollCount' = pollCount + 1
          /\ pc' = "getFile"
          /\ NoFault
          /\ UNCHANGED <<runs, file, stStep, pending, saveStep>>
     ELSE IF state = "FAILED"
     THEN /\ Catch(StepFail(runs, stStep["upload"], MediaRejected), MediaRejected)
          /\ Fault
          /\ UNCHANGED <<file, stStep, pollCount>>
     ELSE /\ file' = "set"
          /\ runs' = startStep(StepComplete(runs, stStep["upload"],
                                            Some(UploadOutput(state, pollCount))),
                               logger, "get_metadata")
          /\ stStep' = [stStep EXCEPT !["metadata"] =
                          TrackerOf(StepComplete(runs, stStep["upload"],
                                                 Some(UploadOutput(state, pollCount))),
                                    logger)]
          /\ pc' = "getMetadata"
          /\ NoFault
          /\ UNCHANGED <<pending, saveStep, pollCount>>

UploadCommon ==
  UNCHANGED <<logger, persisted, index, storageFailed, stPc, stParse, paErr,
              duration, frames, pass1Items, menuResult, info, style, frameIdx,
              extractedFrames, failures, extractExit, fbFrames,
              outcome, qVars>>

UploadFileReturn ==
  /\ pc = "uploadFile"
  /\ \E state \in {"PROCESSING", "ACTIVE", "FAILED"} : FileState(state, 0)
  /\ UploadCommon

UploadFileThrow ==
  /\ Fault
  /\ pc = "uploadFile"
  /\ Catch(StepFail(runs, stStep["upload"], RemoteCallFailure), RemoteCallFailure)
  /\ UNCHANGED <<remote, file, pollCount, stStep>>
  /\ UploadCommon

GetFileReturn ==
  /\ pc = "getFile"
  /\ \E state \in {"PROCESSING", "ACTIVE", "FAILED"} : FileState(state, remote.polls + 1)
  /\ UploadCommon

GetFileThrow ==
  /\ Fault
  /\ pc = "getFile"
  /\ Catch(StepFail(runs, stStep["upload"], RemoteCallFailure), RemoteCallFailure)
  /\ UNCHANGED <<remote, file, pollCount, stStep>>
  /\ UploadCommon

\* ------------------------------------------------ metadata and Promise.all
AllStagesResolved == \A n \in StageNames : stPc[n] = "resolved"

\* extract is suspended in Promise.all and Promise.all has settled: its
\* continuation runs before any other callback
MainReady == pc = "promiseAll" /\ (paErr # NoError \/ AllStagesResolved)

\* the three stages start their steps and issue their calls, in this order
StartStages(rs) ==
  startStep(startStep(startStep(rs, logger, "select_key_frames"),
                      logger, "menu_extraction_pass1"),
            logger, "extract_restaurant_info")

\* GetMetadataReturn altered: the three stages are awaited one after another
GetMetadataReturnSequential ==
  /\ NoFault
  /\ pc = "getMetadata"
  /\ \E d \in Durations :
       LET done == StepComplete(runs, stStep["metadata"], Some("metadata"))
           n == Len(done[logger].steps)
       IN /\ duration' = d
          /\ runs' = startStep(done, logger, "select_key_frames")
          /\ stStep' = [stStep EXCEPT !["frames"] = <<logger, n + 1>>]
  /\ stPc' = [stPc EXCEPT !["frames"] = "call"]
  /\ pc' = "promiseAll"
  /\ UNCHANGED <<logger, saveStep, persisted, index, storageFailed, remote,
                 file, pollCount, stParse, paErr, frames, pass1Items, menuResult,
                 info, style, frameIdx, extractedFrames, failures, pending,
                 extractExit, fbFrames, outcome, qVars>>

GetMetadataReturn ==
  /\ NoFault
  /\ pc = "getMetadata"
  /\ \E d \in Durations :
       LET done == StepComplete(runs, stStep["metadata"], Some("metadata"))
           n == Len(done[logger].steps)
       IN /\ duration' = d
          /\ runs' = StartStages(done)
          /\ stStep' = [stStep EXCEPT !["frames"] = <<logger, n + 1>>,
                                      !["menu"] = <<logger, n + 2>>,
                                      !["info"] = <<logger, n + 3>>]
  /\ stPc' = [n \in StageNames |-> "call"]
  /\ pc' = "promiseAll"
  /\ UNCHANGED <<logger, saveStep, persisted, index, storageFailed, remote,
                 file, pollCount, stParse, paErr, frames, pass1Items, menuResult,
                 info, style, frameIdx, extractedFrames, failures, pending,
                 extractExit, fbFrames, outcome, qVars>>

GetMetadataThrow ==
  /\ Fault
  /\ pc = "getMetadata"
  /\ Catch(StepFail(runs, stStep["metadata"], LocalFailure), LocalFailure)
  /\ UNCHANGED <<logger, persisted, index, storageFailed, remote, file,
                 pollCount, stPc, stStep, stParse, paErr, duration, frames,
                 pass1Items, menuResult, info, style, frameIdx, extractedFrames,
                 failures, extractExit, fbFrames, outcome, qVars>>

\* ------------------------------------------------------ the analysis stages
\* ParseFallback altered: the parse failure fails the step
ParseFallbackFailsStep(rs, ref) == StepFail(rs, ref, "JSON parse failed")

\* a response that does not parse: a warning, the step completed with the
\* stage's fallback output
ParseFallback(rs, ref) ==
  StepComplete(StepAddWarning(rs, ref, "JSON parse failed"), ref, Some("fallback"))

\* the remote call threw: the step failed, the stage rejects
RemoteThrow(rs, ref) == StepFail(rs, ref, RemoteCallFailure)

Resolve(n) == stPc' = [stPc EXCEPT ![n] = "resolved"]
\* Deliver altered: only the stage that settles first hands over its value
DeliverOnlyFirst(old, value) ==
  IF paErr = NoError /\ \A n \in StageNames : stPc[n] \in {"call", "call2"}
  THEN value ELSE old

\* the value a stage returns reaches extract only while Promise.all is pending;
\* after a rejection it is dropped
Deliver(old, value) == IF paErr = NoError THEN value ELSE old
Reject(n) ==
  /\ stPc' = [stPc EXCEPT ![n] = "rejected"]
  /\ paErr' = IF paErr = NoError THEN RemoteCallFailure ELSE paErr

\* what no stage of the Promise.all changes
StageCommon ==
  UNCHANGED <<logger, pc, saveStep, persisted, index, storageFailed, remote,
              file, pollCount, duration, style, frameIdx, extractedFrames, failures,
              pending, extractExit, fbFrames, outcome, qVars>>

SelectKeyFramesOk ==
  /\ NoFault
  /\ stPc["frames"] = "call" /\ ~MainReady
  /\ \E f \in FrameResponses :
       /\ frames' = Deliver(frames, f)
       /\ runs' = StepComplete(StepSetOutput(runs, stStep["frames"], Some("raw")),
                               stStep["frames"], Some("parsed"))
  /\ Resolve("frames")
  /\ UNCHANGED <<stStep, stParse, paErr, pass1Items, menuResult, info>>
  /\ StageCommon

SelectKeyFramesParseFail ==
  /\ NoFault
  /\ stPc["frames"] = "call" /\ ~MainReady
  /\ frames' = Deliver(frames, FallbackFrames(duration))
  /\ runs' = ParseFallback(StepSetOutput(runs, stStep["frames"], Some("raw")), stStep["frames"])
  /\ stParse' = [stParse EXCEPT !["frames"] = TRUE]
  /\ Resolve("frames")
  /\ UNCHANGED <<stStep, paErr, pass1Items, menuResult, info>>
  /\ StageCommon

SelectKeyFramesThrow ==
  /\ Fault
  /\ stPc["frames"] = "call" /\ ~MainReady
  /\ runs' = RemoteThrow(runs, stStep["frames"])
  /\ Reject("frames")
  /\ UNCHANGED <<stStep, stParse, frames, pass1Items, menuResult, info>>
  /\ StageCommon

\* pass 1 parsed: no items ends the stage, otherwise pass 2 starts its step on
\* this.logger and issues its call
\* MenuPass1Ok altered: pass 2 is issued whatever pass 1 found
MenuPass1OkAlwaysVerifies ==
  /\ NoFault
  /\ stPc["menu"] = "call" /\ ~MainReady
  /\ \E items \in Pass1Responses :
       LET done == StepComplete(runs, stStep["menu"], Some("parsed"))
       IN /\ pass1Items' = items
          /\ runs' = startStep(done, logger, "menu_extraction_pass2")
          /\ stStep' = [stStep EXCEPT !["menu"] = TrackerOf(done, logger)]
          /\ stPc' = [stPc EXCEPT !["menu"] = "call2"]
          /\ UNCHANGED menuResult
  /\ UNCHANGED <<stParse, paErr, frames, info>>
  /\ StageCommon

MenuPass1Ok ==
  /\ NoFault
  /\ stPc["menu"] = "call" /\ ~MainReady
  /\ \E items \in Pass1Responses :
       LET done == StepComplete(runs, stStep["menu"], Some("parsed"))
       IN /\ pass1Items' = items
          /\ IF items = <<>>
             THEN /\ runs' = done
                  /\ menuResult' = Deliver(menuResult, [items |-> <<>>, verified |-> TRUE])
                  /\ Resolve("menu")
                  /\ UNCHANGED stStep
             ELSE /\ runs' = startStep(done, logger, "menu_extraction_pass2")
                  /\ stStep' = [stStep EXCEPT !["menu"] = TrackerOf(done, logger)]
                  /\ stPc' = [stPc EXCEPT !["menu"] = "call2"]
                  /\ UNCHANGED menuResult
  /\ UNCHANGED <<stParse, paErr, frames, info>>
  /\ StageCommon

MenuPass1ParseFail ==
  /\ NoFault
  /\ stPc["menu"] = "call" /\ ~MainReady
  /\ runs' = ParseFallback(runs, stStep["menu"])
  /\ menuResult' = Deliver(menuResult, [items |-> <<>>, verified |-> FALSE])
  /\ stParse' = [stParse EXCEPT !["menu"] = TRUE]
  /\ Resolve("menu")
  /\ UNCHANGED <<stStep, paErr, frames, pass1Items, info>>
  /\ StageCommon

MenuPass1Throw ==
  /\ Fault
  /\ stPc["menu"] = "call" /\ ~MainReady
  /\ runs' = RemoteThrow(runs, stStep["menu"])
  /\ Reject("menu")
  /\ UNCHANGED <<stStep, stParse, frames, pass1Items, menuResult, info>>
  /\ StageCommon

MenuPass2Ok ==
  /\ NoFault
  /\ stPc["menu"] = "call2" /\ ~MainReady
  /\ \E v \in Pass2Responses(pass1Items) :
       menuResult' = Deliver(menuResult, [items |-> v, verified |-> TRUE])
  /\ runs' = StepComplete(runs, stStep["menu"], Some("parsed"))
  /\ Resolve("menu")
  /\ UNCHANGED <<stStep, stParse, paErr, frames, pass1Items, info>>
  /\ StageCommon

MenuPass2ParseFail ==
  /\ NoFault
  /\ stPc["menu"] = "call2" /\ ~MainReady
  /\ menuResult' = Deliver(menuResult, UnverifiedMenu(pass1Items))
  /\ runs' = ParseFallback(runs, stStep["menu"])
  /\ Resolve("menu")
  /\ UNCHANGED <<stStep, stParse, paErr, frames, pass1Items, info>>
  /\ StageCommon

\* an exception in pass 2 is absorbed: the step failed, the stage resolves
MenuPass2Throw ==
  /\ Fault
  /\ stPc["menu"] = "call2" /\ ~MainReady
  /\ menuResult' = Deliver(menuResult, UnverifiedMenu(pass1Items))
  /\ runs' = RemoteThrow(runs, stStep["menu"])
  /\ Resolve("menu")
  /\ UNCHANGED <<stStep, stParse, paErr, frames, pass1Items, info>>
  /\ StageCommon

ExtractRestaurantInfoOk ==
  /\ NoFault
  /\ stPc["info"] = "call" /\ ~MainReady
  /\ \E i \in InfoResponses : info' = Deliver(info, i)
  /\ runs' = StepComplete(runs, stStep["info"], Some("parsed"))
  /\ Resolve("info")
  /\ UNCHANGED <<stStep, stParse, paErr, frames, pass1Items, menuResult>>
  /\ StageCommon

ExtractRestaurantInfoParseFail ==
  /\ NoFault
  /\ stPc["info"] = "call" /\ ~MainReady
  /\ info' = Deliver(info, DefaultInfo)
  /\ runs' = ParseFallback(runs, stStep["info"])
  /\ stParse' = [stParse EXCEPT !["info"] = TRUE]
  /\ Resolve("info")
  /\ UNCHANGED <<stStep, paErr, frames, pass1Items, menuResult>>
  /\ StageCommon

ExtractRestaurantInfoThrow ==
  /\ Fault
  /\ stPc["info"] = "call" /\ ~MainReady
  /\ runs' = RemoteThrow(runs, stStep["info"])
  /\ Reject("info")
  /\ UNCHANGED <<stStep, stParse, frames, pass1Items, menuResult, info>>
  /\ StageCommon

\* ------------------------------------------- after Promise.all has settled
MainCommon ==
  UNCHANGED <<persisted, index, storageFailed, file, pollCount, stPc,
              paErr, duration, frames, pass1Items, menuResult, info,
              fbFrames, qVars>>

\* Promise.all rejected: extract's catch block
PromiseAllRejected ==
  /\ NoFault
  /\ pc = "promiseAll" /\ paErr # NoError
  /\ Catch(runs, paErr)
  /\ UNCHANGED <<logger, remote, stStep, stParse, style, frameIdx, extractedFrames,
                 failures, extractExit, outcome>>
  /\ MainCommon

\* PromiseAllResolved altered: extract does not wait for the three stages
PromiseAllResolvedEarly ==
  /\ NoFault
  /\ pc = "promiseAll" /\ paErr = NoError
  /\ runs' = startStep(runs, logger, "extract_style")
  /\ stStep' = [stStep EXCEPT !["style"] = TrackerOf(runs, logger)]
  /\ pc' = "style"
  /\ UNCHANGED <<logger, saveStep, remote, stParse, style, frameIdx, extractedFrames,
                 failures, pending, extractExit, outcome>>
  /\ MainCommon

\* Promise.all resolved: extractStyle starts its step and issues its call
PromiseAllResolved ==
  /\ NoFault
  /\ pc = "promiseAll" /\ paErr = NoError /\ AllStagesResolved
  /\ runs' = startStep(runs, logger, "extract_style")
  /\ stStep' = [stStep EXCEPT !["style"] = TrackerOf(runs, logger)]
  /\ pc' = "style"
  /\ UNCHANGED <<logger, saveStep, remote, stParse, style, frameIdx, extractedFrames,
                 failures, pending, extractExit, outcome>>
  /\ MainCommon

\* extractStyle returned s: extractFramesFromTimestamps starts its step and
\* suspends in fs.mkdir
StyleReturns(rs, s) ==
  /\ style' = s
  /\ runs' = startStep(rs, logger, "extract_frames")
  /\ stStep' = [stStep EXCEPT !["materialize"] = TrackerOf(rs, logger)]
  /\ pc' = "mkdir"
  /\ UNCHANGED <<logger, saveStep, remote, frameIdx, extractedFrames, failures,
                 pending, extractExit, outcome>>
  /\ MainCommon

ExtractStyleOk ==
  /\ NoFault
  /\ pc = "style"
  /\ \E s \in StyleResponses : StyleReturns(StepComplete(runs, stStep["style"], Some("parsed")), s)
  /\ UNCHANGED stParse

ExtractStyleParseFail ==
  /\ NoFault
  /\ pc = "style"
  /\ StyleReturns(ParseFallback(runs, stStep["style"]), DefaultStyle)
  /\ stParse' = [stParse EXCEPT !["style"] = TRUE]

ExtractStyleThrow ==
  /\ Fault
  /\ pc = "style"
  /\ Catch(RemoteThrow(runs, stStep["style"]), RemoteCallFailure)
  /\ UNCHANGED <<logger, remote, stStep, stParse, style, frameIdx, extractedFrames,
                 failures, extractExit, outcome>>
  /\ MainCommon

\* ------------------------------------------------------ frame materialization
\* the loop is over: the step completes, extract assembles the result, marks
\* the run completed and suspends in logger.save()
FramesDone(ef) ==
  /\ runs' = LoggerComplete(StepComplete(runs, stStep["materialize"], Some("frames")), logger,
                            [frames |-> ef, menuItems |-> menuResult,
                             restaurantInfo |-> info, style |-> style])
  /\ pending' = Return
  /\ pc' = "saveOk"
  /\ saveStep' = "save"

MaterializeCommon ==
  /\ UNCHANGED <<logger, remote, stStep, stParse, style, extractExit, outcome>>
  /\ MainCommon

MkdirReturn ==
  /\ NoFault
  /\ pc = "mkdir"
  /\ IF frames = <<>>
     THEN FramesDone(<<>>) /\ UNCHANGED frameIdx
     ELSE /\ pc' = "extractFrameAt"
          /\ frameIdx' = 1
          /\ UNCHANGED <<runs, pending, saveStep>>
  /\ UNCHANGED <<extractedFrames, failures>>
  /\ MaterializeCommon

MkdirThrow ==
  /\ Fault
  /\ pc = "mkdir"
  /\ Catch(StepFail(runs, stStep["materialize"], LocalFailure), LocalFailure)
  /\ UNCHANGED <<frameIdx, extractedFrames, failures>>
  /\ MaterializeCommon

\* one iteration of the loop ended with these lists
FrameAttempted(ef, fl) ==
  /\ extractedFrames' = ef
  /\ failures' = fl
  /\ IF frameIdx = Len(frames)
     THEN FramesDone(ef) /\ UNCHANGED frameIdx
     ELSE /\ frameIdx' = frameIdx + 1
          /\ UNCHANGED <<runs, pc, pending, saveStep>>
  /\ MaterializeCommon

ExtractFrameAtReturn ==
  /\ NoFault
  /\ pc = "extractFrameAt"
  /\ FrameAttempted(Append(extractedFrames, Materialized(frames[frameIdx])), failures)

\* ExtractFrameAtThrow altered: the failure leaves the loop and fails the step
ExtractFrameAtThrowAborts ==
  /\ NoFault
  /\ pc = "extractFrameAt"
  /\ frameIdx <= MaxFailingFrames
  /\ Catch(StepFail(runs, stStep["materialize"], LocalFailure), LocalFailure)
  /\ UNCHANGED <<frameIdx, extractedFrames, failures>>
  /\ MaterializeCommon

ExtractFrameAtThrow ==
  /\ NoFault
  /\ pc = "extractFrameAt"
  /\ frameIdx <= MaxFailingFrames
  /\ FrameAttempted(extractedFrames, Append(failures, frames[frameIdx].timestamp))

\* ----------------------------------------------------------- logger.save()
SavingRun == logger

SaveCommon ==
  UNCHANGED <<file, pollCount, stPc, stStep, stParse, paErr, duration, frames,
              pass1Items, menuResult, info, style, frameIdx, extractedFrames,
              failures, fbFrames, qVars>>

\* save() resolved (ok) or rejected, in extract or in extractWithFallback
AfterSave(ok) ==
  CASE pc = "saveOk" ->
         IF ok THEN Finally(runs, pending)
         ELSE /\ Catch(runs, StorageFailure)
              /\ UNCHANGED <<logger, remote, extractExit, outcome>>
    [] pc = "saveFail" ->
         Finally(runs, IF ok THEN pending ELSE Throw(StorageFailure))
    [] pc = "fbSaveOk" ->
         IF ok
         THEN /\ outcome' = [kind |-> "returned", result |-> runs[logger].result,
                             err |-> NoError]
              /\ pc' = "done"
              /\ saveStep' = "none"
              /\ UNCHANGED <<runs, logger, remote, pending, extractExit>>
         ELSE /\ runs' = LoggerFail(runs, logger, StorageFailure)
              /\ pending' = Throw(StorageFailure)
              /\ pc' = "fbSaveFail"
              /\ saveStep' = "save"
              /\ UNCHANGED <<logger, remote, extractExit, outcome>>
    [] pc = "fbSaveFail" ->
         /\ outcome' = [kind |-> "threw", result |-> Null,
                        err |-> IF ok THEN pending.err ELSE StorageFailure]
         /\ pc' = "done"
         /\ saveStep' = "none"
         /\ UNCHANGED <<runs, logger, remote, pending, extractExit>>

\* save() ran to its end: the run's file holds this.toJSON() and index.json
\* the new index; a failing read of the old index is taken as "index doesn't
\* exist yet"
SaveReturn ==
  /\ NoFault
  /\ saveStep = "save"
  /\ persisted' = [persisted EXCEPT ![runs[SavingRun].runId] = Some(runs[SavingRun])]
  /\ \E readOk \in BOOLEAN :
       index' = updateIndex(IF readOk THEN index ELSE <<>>, runs[SavingRun])
  /\ AfterSave(TRUE)
  /\ UNCHANGED storageFailed
  /\ SaveCommon

\* save() threw: in fs.mkdir or fs.writeFile (nothing written), or in the
\* write of index.json (the run's file written)
SaveThrow ==
  /\ Fault
  /\ saveStep = "save"
  /\ storageFailed' = TRUE
  /\ \E written \in BOOLEAN :
       persisted' = IF written
                    THEN [persisted EXCEPT ![runs[SavingRun].runId] = Some(runs[SavingRun])]
                    ELSE persisted
  /\ AfterSave(FALSE)
  /\ UNCHANGED index
  /\ SaveCommon

\* ------------------------------------------------------------------ cleanup
CleanupReturn ==
  /\ pc = "cleanup"
  /\ \E deleteOk \in BOOLEAN :
       /\ remote' = [remote EXCEPT !.deleted = deleteOk]
       /\ IF deleteOk THEN NoFault ELSE Fault
       /\ ExitExtract(runs, cleanup(deleteOk, pending))
  /\ UNCHANGED <<saveStep, persisted, index, storageFailed, file, pollCount,
                 stPc, stStep, stParse, paErr, duration, frames, pass1Items,
                 menuResult, info, style, frameIdx, extractedFrames, failures,
                 pending, fbFrames, qVars>>

\* ------------------------------------------------------- extractFrameBased
FallbackCommon ==
  UNCHANGED <<logger, persisted, index, storageFailed, remote, file,
              pollCount, stPc, stStep, stParse, paErr, duration, frames, pass1Items,
              menuResult, info, style, frameIdx, extractedFrames, failures,
              extractExit, outcome, qVars>>

\* extractWithFallback's catch (fallbackErr): logger.fail, then logger.save()
FallbackCatch(err) ==
  /\ runs' = LoggerFail(runs, logger, err)
  /\ pending' = Throw(err)
  /\ pc' = "fbSaveFail"
  /\ saveStep' = "save"

ExtractFramesReturn ==
  /\ NoFault
  /\ pc = "fbExtractFrames"
  /\ \E n \in FbFrameCounts : fbFrames' = [k \in 1..n |-> k]
  /\ pc' = "fbAnalyze"
  /\ UNCHANGED <<runs, pending, saveStep>>
  /\ FallbackCommon

ExtractFramesThrow ==
  /\ Fault
  /\ pc = "fbExtractFrames"
  /\ FallbackCatch(LocalFailure)
  /\ UNCHANGED fbFrames
  /\ FallbackCommon

\* extractRestaurantData parsed the response: the result is converted, the run
\* completed and saved
ExtractRestaurantDataOk ==
  /\ NoFault
  /\ pc = "fbAnalyze"
  /\ \E data \in FbResponses :
       runs' = LoggerComplete(runs, logger, ConvertFrameBased(data, fbFrames))
  /\ pending' = Return
  /\ pc' = "fbSaveOk"
  /\ saveStep' = "save"
  /\ UNCHANGED fbFrames
  /\ FallbackCommon

\* extractRestaurantData: JSON.parse threw, it throws "Failed to parse ..."
ExtractRestaurantDataParseFail ==
  /\ NoFault
  /\ pc = "fbAnalyze"
  /\ FallbackCatch(ParseFailure)
  /\ UNCHANGED fbFrames
  /\ FallbackCommon

ExtractRestaurantDataThrow ==
  /\ Fault
  /\ pc = "fbAnalyze"
  /\ FallbackCatch(RemoteCallFailure)
  /\ UNCHANGED fbFrames
  /\ FallbackCommon

\* ---------------------------------------------------------- specification
Next ==
  \/ ExtractWithFallback
  \/ UploadFileReturn \/ UploadFileThrow \/ GetFileReturn \/ GetFileThrow
  \/ GetMetadataReturn \/ GetMetadataThrow
  \/ SelectKeyFramesOk \/ SelectKeyFramesParseFail \/ SelectKeyFramesThrow
  \/ MenuPass1Ok \/ MenuPass1ParseFail \/ MenuPass1Throw
  \/ MenuPass2Ok \/ MenuPass2ParseFail \/ MenuPass2Throw
  \/ ExtractRestaurantInfoOk \/ ExtractRestaurantInfoParseFail
  \/ ExtractRestaurantInfoThrow
  \/ PromiseAllRejected \/ PromiseAllResolved
  \/ ExtractStyleOk \/ ExtractStyleParseFail \/ ExtractStyleThrow
  \/ MkdirReturn \/ MkdirThrow \/ ExtractFrameAtReturn \/ ExtractFrameAtThrow
  \/ SaveReturn \/ SaveThrow
  \/ CleanupReturn
  \/ ExtractFramesReturn \/ ExtractFramesThrow
  \/ ExtractRestaurantDataOk \/ ExtractRestaurantDataParseFail
  \/ ExtractRestaurantDataThrow

Spec == Init /\ [][Next]_vars

\* --------------------------------------------- the scorer taken on its own
\* menu items handed to assessQuality
QItemKinds ==
  {[name |-> 1, price |-> Some(12), confidence |-> Some(90), needsReview |-> Some(FALSE)],
   [name |-> 2, price |-> Null, confidence |-> Some(40), needsReview |-> Some(TRUE)],
   [name |-> 3, price |-> Some(8), confidence |-> Some(DefaultConfidence),
    needsReview |-> Some(TRUE)],
   [name |-> 4, price |-> Null, confidence |-> Null, needsReview |-> Null],
   [name |-> 5, price |-> Some(5), confidence |-> Some(9500), needsReview |-> Some(FALSE)]}

QItemLists == UNION {[1..n -> QItemKinds] : n \in 0..MaxItems}

QInfos ==
  {[name |-> Some("Luigi's"), cuisineType |-> "Italian", descLen |-> 40,
    ambiance |-> "fine-dining", confidence |-> Some(90)],
   [name |-> Some("Luigi's"), cuisineType |-> "Restaurant", descLen |-> 20,
    ambiance |-> "casual", confidence |-> Some(50)],
   DefaultInfo}

QFrameLists ==
  {[k \in 1..n |-> Materialized(FrameAt(k))] : n \in 0..MaxFrames}
  \cup {[k \in 1..FallbackFrameCount |-> Materialized(FallbackFrames(30)[k])]}

QStyles ==
  {DefaultStyle,
   [theme |-> "rustic", primaryColor |-> "#8b0000", secondaryColor |-> "#f59e0b",
    mood |-> "warm", fontStyle |-> "serif"],
   [theme |-> "modern", primaryColor |-> "#2563eb", secondaryColor |-> "#111111",
    mood |-> "cool", fontStyle |-> "serif"]}

\* results of a successful primary pipeline: three confident items, none to
\* review, a named Italian restaurant, nine frames, the default style
ScenarioItems(priced) ==
  [k \in 1..3 |->
     [name |-> k, price |-> IF priced THEN Some(10 + k) ELSE Null,
      confidence |-> Some(<<90, 95, 85>>[k]), needsReview |-> Some(FALSE)]]

ScenarioResults ==
  {[frames |-> [k \in 1..9 |->
                  [Materialized(FrameAt(k)) EXCEPT
                     !.priority = IF keepPriority THEN @ ELSE "medium"]],
    menuItems |-> [items |-> ScenarioItems(priced), verified |-> TRUE],
    restaurantInfo |-> r, style |-> DefaultStyle] :
     keepPriority \in BOOLEAN, priced \in BOOLEAN,
     r \in {x \in QInfos : x.name = Some("Luigi's")} \cup
           {[name |-> Some("Luigi's"), cuisineType |-> "Italian", descLen |-> 0,
             ambiance |-> "casual", confidence |-> Null]}}

\* menus of 5 items and more, and the menu pass 2 verifies with confidences
\* 0.9, 0.4, 0.8 and one item flagged
LongMenuLengths == {5, 6, 8}

MenuOnlyResults ==
  {[EmptyResult EXCEPT !.menuItems = [items |-> i, verified |-> TRUE]] :
     i \in {[k \in 1..n |-> kind] : n \in LongMenuLengths, kind \in QItemKinds}
           \cup {Verified([k \in 1..3 |-> Pass1Item(k)])}}

QResults ==
  {[frames |-> f, menuItems |-> [items |-> i, verified |-> TRUE],
    restaurantInfo |-> r, style |-> st] :
     f \in QFrameLists, i \in QItemLists, r \in QInfos, st \in QStyles}
  \cup ScenarioResults \cup MenuOnlyResults

\* AssessQualityAgain altered: the issues are kept on the instance between calls
AssessQualityAgainAccumulating ==
  /\ ~IsNull(qReport) /\ IsNull(qAgain)
  /\ qAgain' = Some([assessQuality(qInput) EXCEPT !.issues = qReport[1].issues \o @])
  /\ UNCHANGED <<pipeVars, qInput, qReport, hDuration, hFrames, saveOrder, savers, fixed>>

\* a logger has been constructed and is about to be completed with a result
InitQ ==
  /\ runs = <<NewLogger(<<>>)>> /\ logger = 1 /\ InitRest
  /\ qInput \in QResults /\ qReport = Null /\ qAgain = Null
  /\ hDuration = 0 /\ hFrames = Null /\ saveOrder = <<>> /\ savers = <<>> /\ fixed = <<>>

\* this.quality = this.assessQuality(result)
AssessQuality ==
  /\ IsNull(qReport)
  /\ qReport' = Some(assessQuality(qInput))
  /\ UNCHANGED <<pipeVars, qInput, qAgain, hDuration, hFrames, saveOrder, savers, fixed>>

\* assessQuality called once more with the same result
AssessQualityAgain ==
  /\ ~IsNull(qReport) /\ IsNull(qAgain)
  /\ qAgain' = Some(assessQuality(qInput))
  /\ UNCHANGED <<pipeVars, qInput, qReport, hDuration, hFrames, saveOrder, savers, fixed>>

NextQ == AssessQuality \/ AssessQualityAgain

SpecQ == InitQ /\ [][NextQ]_vars

\* ------------------------------------------------------------ the properties
FailedRemoteSteps(run) ==
  {k \in 1..Len(run.steps) :
     run.steps[k].status = "failed" /\ run.steps[k].error = RemoteCallFailure}

ResultFields == {"frames", "menuItems", "restaurantInfo", "style"}

\* C1: each Run's status changes at most once; a Run that has reached
\* completed or failed never changes status again, also when saving fails.
C1_StatusChangesOnce ==
  [][\A r \in 1..Len(runs) :
       runs[r].status # "running" => runs'[r].status = runs[r].status]_vars

\* C2: for every Run, in memory and in every persisted record, status
\* completed implies a result and a quality report, status failed implies an
\* error message.
C2_TerminalStatusCarriesOutcome ==
  LET Sound(run) ==
        /\ run.status = "completed" => ~IsNull(run.result) /\ ~IsNull(run.quality)
        /\ run.status = "failed" => run.error # NoError
  IN /\ \A r \in 1..Len(runs) : Sound(runs[r])
     /\ \A id \in DOMAIN persisted : ~IsNull(persisted[id]) => Sound(persisted[id][1])

C2_Witness ==
  \E r \in 1..Len(runs) :
    /\ runs[r].status = "completed"
    /\ ~IsNull(persisted[runs[r].runId])
    /\ persisted[runs[r].runId][1].status = "completed"

C5_UploadedIsDeleted ==
  (extractExit.kind # "none" /\ remote.uploaded) => remote.deleteCalls > 0

\* C6: the step in which the remote delete of cleanup ends, failed or not,
\* makes extract complete as the try/catch block decided and leaves the Run's
\* status and error as they were.
C6_DeleteFailureNotPropagated ==
  [][(pc = "cleanup" /\ pc' # "cleanup") =>
       /\ extractExit' = pending
       /\ runs'[1].status = runs[1].status
       /\ runs'[1].error = runs[1].error
       /\ pending.kind = "return" => outcome'.kind = "returned"]_vars

C6_Witness ==
  /\ extractExit.kind = "return"
  /\ remote.deleteCalls > 0
  /\ ~remote.deleted
  /\ runs[1].status = "completed"
  /\ outcome.kind = "returned"

\* C7: a Run ends with status failed only if a remote call threw or the
\* upload was reported FAILED; an unparseable model response never fails a Run.
C7_OnlyRemoteFailuresAbort ==
  \A r \in 1..Len(runs) :
    runs[r].status = "failed" => runs[r].error \in {RemoteCallFailure, MediaRejected}

\* C8: in frame selection, menu pass 1, restaurant info and style, a response
\* that fails to parse leaves the stage's step completed with at least one
\* warning, the stage returns its default value and nothing is thrown to
\* extract.
C8_ParseFailureAbsorbed ==
  /\ \A n \in StageNames \cup {"style"} :
       stParse[n] =>
         /\ StepOf(runs, stStep[n]).status = "completed"
         /\ Len(StepOf(runs, stStep[n]).warnings) >= 1
  /\ \A n \in StageNames : stParse[n] => stPc[n] = "resolved"
  /\ (stParse["frames"] /\ paErr = NoError) => frames = FallbackFrames(duration)
  /\ (stParse["menu"] /\ paErr = NoError) =>
       menuResult = [items |-> <<>>, verified |-> FALSE]
  /\ (stParse["info"] /\ paErr = NoError) => info = DefaultInfo
  /\ stParse["style"] =>
       /\ style = DefaultStyle
       /\ stStep["materialize"] # <<0, 0>>
  /\ (\A n \in StageNames \cup {"style"} : stParse[n]) =>
       runs[1].error \notin {"JSON parse failed", ParseFailure}

C8_Witness ==
  /\ \A n \in StageNames \cup {"style"} : stParse[n]
  /\ runs[1].status = "completed"
  /\ Len(frames) = FallbackFrameCount

\* C9: if assessQuality emits an issue of type critical, the rating is poor
\* whatever the overall score.
C9_CriticalMeansPoor ==
  ~IsNull(qReport) =>
    (HasCritical(qReport[1].issues) => qReport[1].rating = "poor")

C9_Witness ==
  /\ ~IsNull(qReport)
  /\ HasCritical(qReport[1].issues)
  /\ OverallScore(qInput) * 5 >= Scale * 3
  /\ qReport[1].rating = "poor"

\* C10: with no critical issue the rating is good iff overall >= 0.8 and there
\* is no issue; otherwise it is fair iff overall >= 0.6; otherwise it is poor.
C10_RatingLadder ==
  (~IsNull(qReport) /\ ~HasCritical(qReport[1].issues)) =>
    LET overall == OverallScore(qInput)
        rating == qReport[1].rating
        good == overall * 5 >= Scale * 4 /\ qReport[1].issues = <<>>
    IN /\ rating = "good" <=> good
       /\ ~good => (rating = "fair" <=> overall * 5 >= Scale * 3)
       /\ (~good /\ ~(overall * 5 >= Scale * 3)) => rating = "poor"

C10_Witness ==
  /\ ~IsNull(qReport)
  /\ qReport[1].issues # <<>>
  /\ ~HasCritical(qReport[1].issues)
  /\ OverallScore(qInput) * 5 >= Scale * 4
  /\ qReport[1].rating = "fair"

C12_ScoresInUnitRange ==
  ~IsNull(qReport) =>
    LET InUnit(x) == 0 <= x /\ x <= Scale
    IN /\ InUnit(MenuScore(MenuItemsOf(qInput)))
       /\ InUnit(InfoScore(qInput.restaurantInfo))
       /\ InUnit(FramesScore(qInput.frames))
       /\ InUnit(StyleScore(qInput.style))
       /\ InUnit(OverallScore(qInput))
       /\ \A d \in DOMAIN qReport[1].scores :
            0 <= qReport[1].scores[d] /\ qReport[1].scores[d] <= 100
       /\ 0 <= qReport[1].overall /\ qReport[1].overall <= 100

\* a menu result as the fallback-confidence paths must produce it
FallbackConfidence(menu) ==
  /\ menu.verified = FALSE
  /\ \A k \in 1..Len(menu.items) :
       /\ menu.items[k].confidence = Some(DefaultConfidence)
       /\ menu.items[k].needsReview = Some(TRUE)

\* pass 2 ended by its parse fallback or by a thrown remote call
Pass2FellBack ==
  /\ stStep["menu"] # <<0, 0>>
  /\ StepOf(runs, stStep["menu"]).name = "menu_extraction_pass2"
  /\ \/ StepOf(runs, stStep["menu"]).status = "failed"
     \/ /\ StepOf(runs, stStep["menu"]).status = "completed"
        /\ StepOf(runs, stStep["menu"]).warnings # <<>>

\* C13: a menu result produced by pass 2's parse fallback, by pass 2's thrown
\* call or by the fallback pipeline has verified = false and every item has
\* confidence 0.7 and needsReview = true, whatever the pass-1 item carried.
C13_FallbackConfidence ==
  /\ (Pass2FellBack /\ paErr = NoError) =>
       /\ FallbackConfidence(menuResult)
       /\ Len(menuResult.items) = Len(pass1Items)
       /\ \A k \in 1..Len(pass1Items) : menuResult.items[k].name = pass1Items[k].name
       /\ ~IsNull(runs[1].result) =>
            FallbackConfidence(runs[1].result[1].menuItems)
  /\ \A r \in 1..Len(runs) :
       (runs[r].metadata.usedFallback /\ ~IsNull(runs[r].result)) =>
         FallbackConfidence(runs[r].result[1].menuItems)

C13_Witness ==
  /\ Pass2FellBack
  /\ StepOf(runs, stStep["menu"]).status = "failed"
  /\ paErr = NoError
  /\ Len(menuResult.items) = MaxItems
  /\ pass1Items[2].confidence = Some(95)
  /\ runs[1].status = "completed"

\* ------------------------------- the frame-selection fallback on its own
InitF ==
  /\ InitPipe
  /\ qInput = EmptyResult /\ qReport = Null /\ qAgain = Null
  /\ hDuration \in 1..MaxDuration /\ hFrames = Null
  /\ saveOrder = <<>> /\ savers = <<>> /\ fixed = <<>>

\* selectKeyFrames, catch (parseErr): return fallbackFrames
SelectKeyFramesFallback ==
  /\ IsNull(hFrames)
  /\ hFrames' = Some(FallbackFrames(hDuration))
  /\ UNCHANGED <<pipeVars, qInput, qReport, qAgain, hDuration, saveOrder, savers, fixed>>

NextF == SelectKeyFramesFallback

SpecF == InitF /\ [][NextF]_vars

\* C14: on a parse failure, for every duration d > 0, frame selection returns
\* exactly 10 frames with strictly increasing timestamps d/11 apart, all
\* strictly between 0 and d, all of type unknown and priority medium.
\* (timestamps are counted in elevenths of a second)
C14_FallbackFramesEvenlySpaced ==
  ~IsNull(hFrames) =>
    LET f == hFrames[1]
        d == hDuration
    IN /\ Len(f) = 10
       /\ \A k \in 1..Len(f) :
            /\ 0 < f[k].timestamp /\ f[k].timestamp < 11 * d
            /\ f[k].type = "unknown" /\ f[k].priority = "medium"
       /\ \A k \in 1..(Len(f) - 1) :
            /\ f[k].timestamp < f[k + 1].timestamp
            /\ f[k + 1].timestamp - f[k].timestamp = d

C14_Witness ==
  /\ ~IsNull(hFrames)
  /\ hDuration = 30
  /\ Len(hFrames[1]) = 10
  /\ hFrames[1][10].timestamp = 300

\* ---------------------------------------------------- the ledger on its own
\* a finished Run with identifier id, as save() sees it
FinishedRun(id) ==
  [NewLogger(<<>>) EXCEPT !.runId = id, !.status = "completed", !.endTime = "set"]

\* the identifiers saved so far
SavedIds == {saveOrder[k] : k \in 1..Len(saveOrder)}

\* numbers of earlier saves after which the read of index.json fails
IndexReadFailsAfter == {1, IndexLimit + 1}

InitL ==
  /\ InitPipe
  /\ qInput = EmptyResult /\ qReport = Null /\ qAgain = Null
  /\ hDuration = 0 /\ hFrames = Null
  /\ saveOrder = <<>> /\ savers = <<>> /\ fixed = <<>>

\* save() of the Run id, from its first await to its return, no other save
\* running meanwhile
Save(id) ==
  /\ Len(saveOrder) < MaxSaves
  /\ \E readOk \in {TRUE} \cup {Len(saveOrder) \notin IndexReadFailsAfter} :
       index' = updateIndex(IF readOk THEN index ELSE <<>>, FinishedRun(id))
  /\ persisted' = persisted
  /\ saveOrder' = Append(saveOrder, id)
  /\ UNCHANGED <<runs, logger, pc, saveStep, storageFailed, faults, remote, file,
                 pollCount, stPc, stStep, stParse, paErr, duration, frames,
                 pass1Items, menuResult, info, style, frameIdx, extractedFrames,
                 failures, pending, extractExit, fbFrames, outcome,
                 qInput, qReport, qAgain, hDuration, hFrames, savers, fixed>>

\* a Run is saved for the first time
SaveNewRun == Save(Cardinality(SavedIds) + 1)

\* a Run saved before is saved again: the newest, the oldest still in the
\* index, or the first one ever saved
SaveRunAgain ==
  /\ saveOrder # <<>> /\ index # <<>>
  /\ Cardinality(SavedIds) = Len(saveOrder)
  /\ \E id \in {saveOrder[Len(saveOrder)], index[Len(index)].runId, saveOrder[1]} :
       Save(id)

NextL == SaveNewRun \/ SaveRunAgain

SpecL == InitL /\ [][NextL]_vars

\* position of the last save of the Run id
LastSave(id) ==
  LET at == {k \in 1..Len(saveOrder) : saveOrder[k] = id}
  IN CHOOSE k \in at : \A m \in at : m <= k

\* C15: after any sequence of saves that do not overlap, the index holds at
\* most 100 entries, the Run saved last is first, and the entries are in
\* decreasing order of their last save (each entry was saved after the next).
C15_IndexRecentFirst ==
  /\ Len(index) <= 100
  /\ saveOrder # <<>> =>
       /\ index # <<>>
       /\ index[1].runId = saveOrder[Len(saveOrder)]
  /\ \A i \in 1..Len(index) : index[i].runId \in SavedIds
  /\ \A i \in 1..(Len(index) - 1) :
       LastSave(index[i].runId) > LastSave(index[i + 1].runId)

C15_Witness ==
  /\ Len(index) = 100
  /\ Cardinality(SavedIds) > 100
  /\ Cardinality(SavedIds) < Len(saveOrder)
  /\ index[1].runId = saveOrder[1]

\* the Run r has a record under its identifier with a terminal status, and a
\* summary in the index
Recorded(r) ==
  /\ ~IsNull(persisted[runs[r].runId])
  /\ persisted[runs[r].runId][1].status \in {"completed", "failed"}
  /\ \E k \in 1..Len(index) : index[k].runId = runs[r].runId

\* extract has just returned or thrown
ExtractJustExited ==
  \/ pc = "fbExtractFrames"
  \/ pc = "done" /\ extractExit.kind = "return"

\* C16: when extract or extractWithFallback returns or throws and no storage
\* write failed, every Run the call created has a record with a terminal
\* status under its identifier and a summary in the index.
C16_EveryRunRecorded ==
  /\ (ExtractJustExited /\ ~storageFailed) => Recorded(1)
  /\ (pc = "done" /\ ~storageFailed) => \A r \in 1..Len(runs) : Recorded(r)

\* ------------------------------------------------------------- progress
\* every call that is awaited eventually returns or throws, and the uploaded
\* file leaves PROCESSING (at most MaxPolls polls answer PROCESSING)
LiveSpec == Spec /\ WF_vars(Next)

\* C17: if the file eventually leaves PROCESSING and every call eventually
\* returns or throws, extractWithFallback eventually returns a complete result
\* or throws, and then no Run it created is left running.
C17_EventuallyDone ==
  /\ <>(pc = "done")
  /\ [](pc = "done" =>
          /\ outcome.kind \in {"returned", "threw"}
          /\ outcome.kind = "returned" =>
               ~IsNull(outcome.result) /\ DOMAIN outcome.result[1] = ResultFields
          /\ Len(runs) >= 1
          /\ \A r \in 1..Len(runs) : runs[r].status \in {"completed", "failed"})

C17_Witness ==
  /\ pc = "done"
  /\ outcome.kind = "returned"
  /\ Len(runs) = 2
  /\ runs[1].status = "failed"
  /\ runs[2].status = "completed"
  /\ pollCount = MaxPolls

\* three items with confidences 0.9, 0.95, 0.85 and none to review, name
\* "Luigi's", cuisine "Italian", nine frames with food, exterior and interior
\* among their types, the default style
IsScenario(result) ==
  LET items == MenuItemsOf(result)
  IN /\ Len(items) = 3
     /\ [k \in 1..3 |-> items[k].confidence] = <<Some(90), Some(95), Some(85)>>
     /\ \A k \in 1..3 : ~Truthy(items[k].needsReview)
     /\ result.restaurantInfo.name = Some("Luigi's")
     /\ result.restaurantInfo.cuisineType = "Italian"
     /\ Len(result.frames) = 9
     /\ {"food", "exterior", "interior"} \subseteq FrameTypes(result.frames)
     /\ result.style = DefaultStyle

\* C18: for that result assessQuality emits no critical issue and rates it
\* fair.
C18_ScenarioRatedFair ==
  (~IsNull(qReport) /\ IsScenario(qInput)) =>
    /\ ~HasCritical(qReport[1].issues)
    /\ qReport[1].rating = "fair"

C18_Witness ==
  /\ ~IsNull(qReport)
  /\ IsScenario(qInput)
  /\ OverallScore(qInput) * 5 >= Scale * 4
  /\ Len(qReport[1].issues) = 1

\* C19: the style score is 0.3 exactly when the style tuple equals the default
\* tuple (modern, #2563eb, #f59e0b, warm, sans-serif) and 1 for every other
\* style, also one that shares only some fields with the default.
C19_StyleScoreOnWholeTuple ==
  ~IsNull(qReport) =>
    /\ StyleScore(qInput.style) = (Scale \div 10) * 3 <=> qInput.style = DefaultStyle
    /\ qInput.style # DefaultStyle => StyleScore(qInput.style) = Scale
    /\ qReport[1].scores.style = (IF qInput.style = DefaultStyle THEN 30 ELSE 100)

\* C20: the menu score is 0.4 min(1, n/5) + 0.3 (1 - needsReview/max(n,1))
\* + 0.3 avgConfidence, avgConfidence the mean confidence (0 for no items, a
\* missing confidence counting 0); for confidences 0.9, 0.4, 0.8 with one item
\* to review it is about 0.649.
\* (both sides are multiplied by 1000 max(n,1))
C20_MenuScoreFormula ==
  ~IsNull(qReport) =>
    LET items == MenuItemsOf(qInput)
        n == Len(items)
        d == IF n = 0 THEN 1 ELSE n
        nr == Cardinality({k \in 1..n : items[k].needsReview = Some(TRUE)})
        confs == [k \in 1..n |->
                    IF items[k].confidence = Null THEN 0 ELSE items[k].confidence[1]]
        score == MenuScore(items)
    IN /\ score * d
            = (Scale \div 1000)
              * (80 * d * (IF n < 5 THEN n ELSE 5) + 300 * (d - nr) + 3 * SumSeq(confs))
       /\ (confs = <<90, 40, 80>> /\ nr = 1) =>
            /\ (Scale \div 1000) * 647 <= score
            /\ score <= (Scale \div 1000) * 651
            /\ qReport[1].scores.menu = 65

C20_Witness ==
  /\ ~IsNull(qReport)
  /\ Len(MenuItemsOf(qInput)) = 3
  /\ [k \in 1..3 |-> MenuItemsOf(qInput)[k].confidence] = <<Some(90), Some(40), Some(80)>>
  /\ NeedsReviewCount(MenuItemsOf(qInput)) = 1
  /\ qReport[1].scores.menu = 65

\* the report carries the issue
Emits(report, t, c, m) ==
  \E k \in 1..Len(report.issues) : report.issues[k] = Issue(t, c, m)

\* C21: a critical issue is emitted iff the result has no menu item or no
\* frame; a menu warning for 1 or 2 items, a menu warning for an average
\* confidence below 0.6 over at least one item, and a frames warning when no
\* frame is exterior and none is interior.
C21_IssueThresholds ==
  ~IsNull(qReport) =>
    LET items == MenuItemsOf(qInput)
        n == Len(items)
        confs == [k \in 1..n |->
                    IF items[k].confidence = Null THEN 0 ELSE items[k].confidence[1]]
        types == {qInput.frames[k].type : k \in 1..Len(qInput.frames)}
        r == qReport[1]
    IN /\ (\E k \in 1..Len(r.issues) : r.issues[k].type = "critical")
            <=> (n = 0 \/ Len(qInput.frames) = 0)
       /\ n \in {1, 2} => Emits(r, "warning", "menu", "Only few menu items found")
       /\ (n >= 1 /\ SumSeq(confs) < 60 * n) =>
            Emits(r, "warning", "menu", "Low average confidence")
       /\ ("exterior" \notin types /\ "interior" \notin types) =>
            Emits(r, "warning", "frames", "No exterior or interior shots")

C21_Witness ==
  /\ ~IsNull(qReport)
  /\ Len(qInput.frames) = 0
  /\ Len(MenuItemsOf(qInput)) = 2
  /\ Emits(qReport[1], "critical", "frames", "No frames extracted")
  /\ Emits(qReport[1], "warning", "menu", "Only few menu items found")
  /\ Emits(qReport[1], "warning", "menu", "Low average confidence")
  /\ Emits(qReport[1], "warning", "frames", "No exterior or interior shots")

\* the steps named name, as <<run, position>>
StepsNamed(name) ==
  {<<r, k>> \in (1..Len(runs)) \X (1..8) :
     k <= Len(runs[r].steps) /\ runs[r].steps[k].name = name}

\* pass 1's response parsed
Pass1Parsed ==
  \E ref \in StepsNamed("menu_extraction_pass1") :
    /\ StepOf(runs, ref).status = "completed"
    /\ StepOf(runs, ref).warnings = <<>>

\* C22: pass 2 is issued iff pass 1's response parsed to at least one item;
\* zero parsed items give an empty verified menu, an unparseable pass-1
\* response an empty unverified menu, and neither starts a pass-2 step.
C22_Pass2OnlyForItems ==
  /\ StepsNamed("menu_extraction_pass2") # {} <=> (Pass1Parsed /\ Len(pass1Items) >= 1)
  /\ (Pass1Parsed /\ pass1Items = <<>>) =>
       /\ stPc["menu"] = "resolved"
       /\ paErr = NoError => menuResult = [items |-> <<>>, verified |-> TRUE]
  /\ stParse["menu"] =>
       /\ stPc["menu"] = "resolved"
       /\ StepsNamed("menu_extraction_pass2") = {}
       /\ paErr = NoError => menuResult = [items |-> <<>>, verified |-> FALSE]

C22_Witness ==
  /\ Pass1Parsed
  /\ pass1Items = <<>>
  /\ menuResult = [items |-> <<>>, verified |-> TRUE]
  /\ StepsNamed("menu_extraction_pass2") = {}
  /\ runs[1].status = "completed"
  /\ Len(runs[1].result[1].frames) > 0

\* every step of run r named name has completed, and there is one
CompletedIn(r, name) ==
  /\ \E ref \in StepsNamed(name) : ref[1] = r
  /\ \A ref \in StepsNamed(name) : ref[1] = r => StepOf(runs, ref).status = "completed"

\* C23: the style step is started only after the restaurant-info step has
\* completed, and the frame-materialization step only after the style step
\* has completed.
C23_StyleAfterInfoFramesAfterStyle ==
  /\ [](\A ref \in StepsNamed("extract_style") :
         CompletedIn(ref[1], "extract_restaurant_info"))
  /\ [](\A ref \in StepsNamed("extract_frames") :
         CompletedIn(ref[1], "extract_style"))
  /\ [][/\ StepsNamed("extract_style")' # StepsNamed("extract_style")
          => CompletedIn(logger, "extract_restaurant_info")
        /\ StepsNamed("extract_frames")' # StepsNamed("extract_frames")
          => CompletedIn(logger, "extract_style")']_vars

C23_Witness ==
  /\ StepsNamed("extract_frames") # {}
  /\ StepsNamed("menu_extraction_pass2") # {}
  /\ stParse["info"]
  /\ pc = "extractFrameAt"

\* the stages whose first remote call has been issued
Issued == {n \in StageNames : stPc[n] # "idle"}

\* the stages whose first remote call has returned or thrown
Returned == {n \in StageNames : stPc[n] \notin {"idle", "call"}}

\* C24: the frame-selection, menu pass-1 and restaurant-info calls are all
\* issued, against the uploaded file, before any of them returns, and only
\* after the upload step and the metadata step have completed.
C24_ThreeCallsIssuedTogether ==
  /\ [](Returned # {} => Issued = StageNames)
  /\ [](Issued # {} =>
         /\ Issued = StageNames
         /\ CompletedIn(1, "upload_video")
         /\ CompletedIn(1, "get_metadata"))
  /\ [][Issued' # Issued =>
          /\ Issued = {} /\ Issued' = StageNames /\ Returned' = {}
          /\ file = "set" /\ file' = "set"
          /\ remote.uploaded /\ remote.deleteCalls = 0
          /\ \A n \in StageNames : StepOf(runs', stStep'[n]).status = "running"]_vars

C24_Witness ==
  /\ pc = "promiseAll"
  /\ stPc["info"] = "resolved"
  /\ stPc["menu"] = "call"
  /\ stPc["frames"] = "call"
  /\ StepOf(runs, stStep["menu"]).status = "running"

\* the selected frames whose timestamp is not among the recorded failures,
\* in selection order, as extractFramesFromTimestamps returns them
Succeeded(fs, fl) ==
  LET ok == SelectSeq(fs, LAMBDA f : \A i \in 1..Len(fl) : fl[i] # f.timestamp)
  IN [k \in 1..Len(ok) |-> Materialized(ok[k])]

\* C25: every selected timestamp is attempted whatever happened to the others;
\* a failed attempt fails neither the step nor the Run; the returned frames
\* are the selected frames that were extracted, in selection order; returned
\* plus failed equals selected; the step completes even with no frame.
C25_FramesAttemptedIndependently ==
  \A ref \in StepsNamed("extract_frames") :
    LET st == StepOf(runs, ref)
    IN /\ pc = "extractFrameAt" =>
            /\ st.status = "running"
            /\ Len(extractedFrames) + Len(failures) = frameIdx - 1
            /\ frameIdx <= Len(frames)
       /\ st.status = "failed" =>
            /\ st.error = LocalFailure
            /\ frameIdx = 0
            /\ failures = <<>> /\ extractedFrames = <<>>
       /\ st.status = "completed" =>
            /\ Len(extractedFrames) + Len(failures) = Len(frames)
            /\ extractedFrames = Succeeded(frames, failures)
            /\ runs[ref[1]].result = Some([frames |-> extractedFrames,
                                           menuItems |-> menuResult,
                                           restaurantInfo |-> info,
                                           style |-> style])
            /\ runs[ref[1]].status = "failed" => runs[ref[1]].error = StorageFailure

C25_Witness ==
  /\ Len(frames) = 2
  /\ failures = <<frames[1].timestamp>>
  /\ extractedFrames = <<Materialized(frames[2])>>
  /\ runs[1].status = "completed"
  /\ CompletedIn(1, "extract_frames")

\* ------------------------------------------------------- concurrent saves
\* the loggers whose save() calls overlap; logger s holds the finished Run s
Savers == 1..NumSavers

InitC ==
  /\ InitPipe
  /\ qInput = EmptyResult /\ qReport = Null /\ qAgain = Null
  /\ hDuration = 0 /\ hFrames = Null
  /\ saveOrder = <<>>
  /\ savers = [s \in Savers |-> [pc |-> "writeFile", read |-> <<>>]]
  /\ fixed = <<>>

SaverCommon ==
  UNCHANGED <<runs, logger, pc, saveStep, persisted, storageFailed, faults, remote,
              file, pollCount, stPc, stStep, stParse, paErr, duration, frames,
              pass1Items, menuResult, info, style, frameIdx, extractedFrames,
              failures, pending, extractExit, fbFrames, outcome,
              qInput, qReport, qAgain, hDuration, hFrames, fixed>>

\* save(): the Run's own file is written; updateIndex issues its readFile
SaverWriteFile(s) ==
  /\ savers[s].pc = "writeFile"
  /\ savers' = [savers EXCEPT ![s].pc = "readFile"]
  /\ saveOrder' = Append(saveOrder, s)
  /\ UNCHANGED index
  /\ SaverCommon

\* updateIndex: readFile answers with the index as it is on disk now (a
\* missing file reads as the empty index)
SaverReadFile(s) ==
  /\ savers[s].pc = "readFile"
  /\ savers' = [savers EXCEPT ![s] = [pc |-> "writeIndex", read |-> index]]
  /\ UNCHANGED <<index, saveOrder>>
  /\ SaverCommon

\* updateIndex: the index computed from what was read replaces index.json
SaverWriteIndex(s) ==
  /\ savers[s].pc = "writeIndex"
  /\ index' = updateIndex(savers[s].read, FinishedRun(s))
  /\ savers' = [savers EXCEPT ![s].pc = "done"]
  /\ UNCHANGED saveOrder
  /\ SaverCommon

NextC ==
  \E s \in Savers : SaverWriteFile(s) \/ SaverReadFile(s) \/ SaverWriteIndex(s)

SpecC == InitC /\ [][NextC]_vars

\* C26: once all the overlapping saves have finished, the index holds a
\* summary for every one of the Runs.
C26_NoIndexUpdateLost ==
  (\A s \in Savers : savers[s].pc = "done") =>
     \A s \in Savers : \E i \in 1..Len(index) : index[i].runId = s

PrimaryPrefix ==
  <<"upload_video", "get_metadata", "select_key_frames", "menu_extraction_pass1",
    "extract_restaurant_info">>

\* C28: the steps of a Run are in the order they were started; a primary Run
\* begins upload_video, get_metadata, select_key_frames,
\* menu_extraction_pass1, extract_restaurant_info, and extract_style comes
\* before extract_frames.
C28_StepsInStartOrder ==
  /\ \A r \in 1..Len(runs) : \A i, j \in 1..Len(runs[r].steps) :
       i < j => runs[r].steps[i].startTime < runs[r].steps[j].startTime
  /\ Len(runs) >= 1 =>
       /\ \A k \in 1..Min(Len(runs[1].steps), 5) : runs[1].steps[k].name = PrimaryPrefix[k]
       /\ stPc["frames"] # "idle" => Len(runs[1].steps) >= 5
  /\ \A f \in StepsNamed("extract_frames") :
       \E st \in StepsNamed("extract_style") : st[1] = f[1] /\ st[2] < f[2]

C28_Witness ==
  /\ Len(runs) >= 1
  /\ Len(runs[1].steps) = 8
  /\ runs[1].steps[6].name = "menu_extraction_pass2"
  /\ runs[1].steps[7].name = "extract_style"
  /\ runs[1].steps[8].name = "extract_frames"

\* every step there is, as <<run, position>>
AllSteps ==
  {<<r, k>> \in (1..Len(runs)) \X (1..8) : k <= Len(runs[r].steps)}

\* C29: a step's output is non-null only if the step is completed; a failed
\* step has an error and no output; a step's status changes at most once,
\* from running to completed or to failed.
C29_StepOutputOnlyOnCompletion ==
  /\ [](\A ref \in AllSteps :
          LET st == StepOf(runs, ref)
          IN /\ st.status \in {"running", "completed", "failed"}
             /\ ~IsNull(st.output) => st.status = "completed"
             /\ st.status = "failed" => st.error # NoError /\ IsNull(st.output)
             /\ st.status # "failed" => st.error = NoError)
  /\ [][\A ref \in AllSteps :
          /\ ref \in AllSteps'
          /\ StepOf(runs', ref).name = StepOf(runs, ref).name
          /\ StepOf(runs', ref).status # StepOf(runs, ref).status =>
               /\ StepOf(runs, ref).status = "running"
               /\ StepOf(runs', ref).status \in {"completed", "failed"}
          /\ StepOf(runs, ref).status # "running" =>
               StepOf(runs', ref) = StepOf(runs, ref)]_vars

C29_Witness ==
  /\ \E ref \in StepsNamed("select_key_frames") :
       /\ StepOf(runs, ref).status = "completed"
       /\ StepOf(runs, ref).warnings # <<>>
       /\ StepOf(runs, ref).output = Some("fallback")
  /\ \E ref \in StepsNamed("menu_extraction_pass2") :
       /\ StepOf(runs, ref).status = "failed"
       /\ StepOf(runs, ref).error = RemoteCallFailure
       /\ IsNull(StepOf(runs, ref).output)
  /\ \E ref \in AllSteps : StepOf(runs, ref).status = "running"

\* C30: a Run that has been finalized and persisted is equal to its persisted
\* record: nothing is appended to its steps and none of its steps changes.
C30_PersistedRunNotMutated ==
  \A r \in 1..Len(runs) :
    (runs[r].status \in {"completed", "failed"} /\ ~IsNull(persisted[runs[r].runId]))
      => runs[r] = persisted[runs[r].runId][1]

\* the stages whose work is in the result of the completed Run r: those of
\* extract (57-71), or the two of extractFrameBased (694-700)
ContributingStages(r) ==
  IF runs[r].metadata.usedFallback
  THEN {"extract_frames", "extract_restaurant_data"}
  ELSE {"upload_video", "get_metadata", "select_key_frames", "menu_extraction_pass1",
        "extract_restaurant_info", "extract_style", "extract_frames"}
       \cup (IF pass1Items # <<>> THEN {"menu_extraction_pass2"} ELSE {})

\* the Run r has a timed, finished step named name
TimedStep(r, name) ==
  \E k \in 1..Len(runs[r].steps) :
    /\ runs[r].steps[k].name = name
    /\ runs[r].steps[k].startTime >= 1
    /\ runs[r].steps[k].endTime = "set"
    /\ runs[r].steps[k].status \in {"completed", "failed"}

\* C31: every completed Run, primary or fallback, has for each stage that
\* contributed to its result a step with a start time, an end time and a
\* terminal status.
C31_EveryStageLogged ==
  \A r \in 1..Len(runs) :
    runs[r].status = "completed" =>
      \A name \in ContributingStages(r) : TimedStep(r, name)

\* the remote analysis calls on the uploaded file that have been issued and
\* not answered
CallsInFlight ==
  {<<n, stPc[n]>> : n \in {m \in StageNames : stPc[m] \in {"call", "call2"}}}
    \cup (IF pc = "style" THEN {<<"style", "call">>} ELSE {})

\* C32: once cleanup has asked for the file to be deleted, no analysis call
\* that references the file is in flight and none is issued.
C32_NoCallAfterRelease ==
  /\ [](remote.deleteCalls > 0 => CallsInFlight = {})
  /\ [][remote.deleteCalls > 0 => CallsInFlight' \subseteq CallsInFlight]_vars

\* the steps only the primary attempt (extract) starts
PrimaryStepNames ==
  {"upload_video", "get_metadata", "select_key_frames", "menu_extraction_pass1",
   "menu_extraction_pass2", "extract_restaurant_info", "extract_style",
   "extract_frames"}

\* C33: a step is recorded in the Run of the attempt that started it: no step
\* started by the primary attempt is in the fallback Run's steps.
C33_StepsStayInTheirRun ==
  \A ref \in AllSteps :
    StepOf(runs, ref).name \in PrimaryStepNames => ~runs[ref[1]].metadata.usedFallback

\* C34: a Run record persisted with status completed or failed holds no
\* running step: every step in it is completed or failed and has an end time.
C34_PersistedStepsTerminal ==
  \A id \in DOMAIN persisted :
    (~IsNull(persisted[id]) /\ persisted[id][1].status \in {"completed", "failed"}) =>
       \A k \in 1..Len(persisted[id][1].steps) :
         /\ persisted[id][1].steps[k].status \in {"completed", "failed"}
         /\ persisted[id][1].steps[k].endTime = "set"

\* the status of the primary Run's record on disk, "none" if there is none
PersistedStatus ==
  IF IsNull(persisted[1]) THEN "none" ELSE persisted[1][1].status

\* C35: extract returns a result iff its Run's final persisted status is
\* completed, and the result is then the stored one; it throws iff the final
\* persisted status is failed.
C35_OutcomeAgreesWithRecord ==
  extractExit.kind # "none" =>
    /\ extractExit.kind = "return" <=> PersistedStatus = "completed"
    /\ extractExit.kind = "throw" <=> PersistedStatus = "failed"
    /\ extractExit.kind = "return" =>
         /\ persisted[1][1].result = runs[1].result
         /\ outcome.result = persisted[1][1].result

\* C36: in a primary Run with status completed every step other than
\* menu_extraction_pass2 is completed; menu_extraction_pass2 may be failed,
\* and then the menu result is unverified.
C36_OnlyPass2FailsInCompletedRun ==
  \A r \in 1..Len(runs) :
    (runs[r].status = "completed" /\ ~runs[r].metadata.usedFallback) =>
      \A k \in 1..Len(runs[r].steps) :
        LET st == runs[r].steps[k]
        IN /\ st.name # "menu_extraction_pass2" => st.status = "completed"
           /\ st.name = "menu_extraction_pass2" =>
                /\ st.status \in {"completed", "failed"}
                /\ st.status = "failed" => ~runs[r].result[1].menuItems.verified

C36_Witness ==
  /\ Len(runs) = 1
  /\ runs[1].status = "completed"
  /\ Len(runs[1].steps) = 8
  /\ runs[1].steps[6].name = "menu_extraction_pass2"
  /\ runs[1].steps[6].status = "failed"
  /\ ~runs[1].result[1].menuItems.verified
  /\ Len(runs[1].result[1].menuItems.items) = MaxItems

\* ------------------------------------------- fixed responses, any interleaving
\* the kinds of pass-2 response
Pass2Kinds == {"empty", "verified", "unvalidated"}

\* parsed2.items of the pass-2 response of this kind to the pass-1 items
Pass2Of(kind, items) ==
  CASE kind = "empty" -> <<>>
    [] kind = "verified" -> Verified(items)
    [] OTHER -> Unvalidated(items)

\* every remote call has its response decided beforehand; no call, local
\* operation or save fails
InitO ==
  /\ InitPipe
  /\ qInput = EmptyResult /\ qReport = Null /\ qAgain = Null
  /\ hDuration = 0 /\ hFrames = Null
  /\ saveOrder = <<>> /\ savers = <<>>
  /\ fixed \in [frames : FrameResponses, pass1 : Pass1Responses, pass2 : Pass2Kinds,
                info : InfoResponses, style : StyleResponses]

NextO ==
  \/ ExtractWithFallback
  \/ UploadFileReturn /\ remote'.state = "ACTIVE"
  \/ GetMetadataReturn
  \/ SelectKeyFramesOk /\ frames' = fixed.frames
  \/ MenuPass1Ok /\ pass1Items' = fixed.pass1
  \/ MenuPass2Ok /\ menuResult'.items = Pass2Of(fixed.pass2, pass1Items)
  \/ ExtractRestaurantInfoOk /\ info' = fixed.info
  \/ PromiseAllResolved
  \/ ExtractStyleOk /\ style' = fixed.style
  \/ MkdirReturn
  \/ ExtractFrameAtReturn
  \/ SaveReturn
  \/ CleanupReturn /\ remote'.deleted

SpecO == InitO /\ [][NextO]_vars

\* the result extract assembles from these responses when nothing fails
ExpectedResult(fx) ==
  [frames |-> [k \in 1..Len(fx.frames) |-> Materialized(fx.frames[k])],
   menuItems |-> IF fx.pass1 = <<>>
                 THEN [items |-> <<>>, verified |-> TRUE]
                 ELSE [items |-> Pass2Of(fx.pass2, fx.pass1), verified |-> TRUE],
   restaurantInfo |-> fx.info,
   style |-> fx.style]

\* C37: when the three concurrent calls succeed, the result extract returns is
\* determined by the responses: every order of completion gives the same
\* frames, menu result, restaurant info and style.
C37_ResultIndependentOfOrder ==
  /\ (pc = "promiseAll" /\ AllStagesResolved) =>
       /\ frames = fixed.frames
       /\ menuResult = ExpectedResult(fixed).menuItems
       /\ info = fixed.info
  /\ outcome.kind = "returned" => outcome.result = Some(ExpectedResult(fixed))
  /\ pc = "done" => outcome.kind = "returned"

C37_Witness ==
  /\ pc = "done"
  /\ outcome.kind = "returned"
  /\ Len(outcome.result[1].frames) = 2
  /\ fixed.pass2 = "unvalidated"
  /\ Len(outcome.result[1].menuItems.items) = MaxItems
  /\ runs[1].steps[6].name = "menu_extraction_pass2"

\* ------------------------------------------- the scorer on fallback results
\* answers to the frame-based prompt, from nothing recognised to everything
\* recognised: 5 priced menu items, 8 photos of all types
FbQData ==
  {[restaurantName |-> n, cuisineType |-> c, descLen |-> d,
    styleTheme |-> st[1], primaryColor |-> st[2], menuItems |-> m, photos |-> ph] :
     n \in {Null, Some("Luigi's")}, c \in {"", "Italian"}, d \in {0, 40},
     st \in {<<"", "">>, <<"rustic", "#8b0000">>},
     m \in {Null} \cup
           {Some([k \in 1..len |->
                    [name |-> k, category |-> "mains", estimatedPrice |-> Some(9)]]) :
              len \in {2, 5}},
     ph \in {Null} \cup
            {Some([k \in 1..len |->
                     [frameIndex |-> Some(k - 1), type |-> TypeCycle[k]]]) :
               len \in {2, 8}}}

\* the fallback logger is about to be completed with extractFrameBased's result
InitB ==
  /\ runs = <<FallbackLogger(<<>>, RemoteCallFailure)>> /\ logger = 1 /\ InitRest
  /\ qInput \in {ConvertFrameBased(data, [k \in 1..8 |-> k]) : data \in FbQData}
  /\ qReport = Null /\ qAgain = Null
  /\ hDuration = 0 /\ hFrames = Null /\ saveOrder = <<>> /\ savers = <<>> /\ fixed = <<>>

SpecB == InitB /\ [][NextQ]_vars

\* C38: whatever extractFrameBased returns, assessQuality rates it fair or
\* poor, never good.
C38_FallbackNeverGood ==
  /\ ~IsNull(qReport) => qReport[1].rating \in {"fair", "poor"}
  /\ ~IsNull(qAgain) => qAgain[1].rating \in {"fair", "poor"}

C38_Witness ==
  /\ ~IsNull(qReport)
  /\ qReport[1].overall >= 80
  /\ qReport[1].rating = "fair"
  /\ Len(qInput.menuItems.items) = 5
  /\ Len(qInput.frames) = 8

\* C39: the rating agrees with the reported (rounded) overall: without a
\* critical issue, poor only below 0.6 and at least fair from 0.6 on; good
\* only from 0.8 on, and good whenever there is no issue from 0.8 on.
C39_RatingAgreesWithReportedOverall ==
  ~IsNull(qReport) =>
    LET r == qReport[1]
        noCritical == ~HasCritical(r.issues)
    IN /\ (noCritical /\ r.rating = "poor") => r.overall < 60
       /\ r.rating = "good" => r.overall >= 80
       /\ (r.issues = <<>> /\ r.overall >= 80) => r.rating = "good"
       /\ (noCritical /\ r.overall >= 60) => r.rating \in {"fair", "good"}

\* ------------------------------------------ which image a photo's path names
\* selectDistributedFrames(frames, maxCount): frames[Math.floor(i * step)]
\* for i = 0..maxCount-1, step = frames.length / maxCount
selectDistributedFrames(fs, maxCount) ==
  IF Len(fs) <= maxCount THEN fs
  ELSE [i \in 1..maxCount |-> fs[((i - 1) * Len(fs)) \div maxCount + 1]]

\* the answer of the model with one photo, of the image at frameIndex
OnePhoto(frameIndex) ==
  [restaurantName |-> Some("Luigi's"), cuisineType |-> "Italian", descLen |-> 40,
   styleTheme |-> "rustic", primaryColor |-> "#8b0000", menuItems |-> Null,
   photos |-> Some(<<[frameIndex |-> Some(frameIndex), type |-> "food"]>>)]

\* extractFrames has sampled n frames, extractRestaurantData has sent the
\* model the selected ones and the model names one of the images it was sent
InitD ==
  /\ runs = <<FallbackLogger(<<>>, RemoteCallFailure)>> /\ logger = 1 /\ InitRest
  /\ \E n \in 1..MaxSampled : \E j \in 0..(Min(n, MaxAnalyzed) - 1) :
       fixed = [frames |-> [k \in 1..n |-> k], data |-> OnePhoto(j)]
  /\ qInput = EmptyResult /\ qReport = Null /\ qAgain = Null
  /\ hDuration = 0 /\ hFrames = Null /\ saveOrder = <<>> /\ savers = <<>>

\* extractFrameBased: "Convert to new format"
ConvertToNewFormat ==
  /\ qInput = EmptyResult
  /\ qInput' = ConvertFrameBased(fixed.data, fixed.frames)
  /\ UNCHANGED <<pipeVars, qReport, qAgain, hDuration, hFrames, saveOrder, savers, fixed>>

NextD == ConvertToNewFormat

SpecD == InitD /\ [][NextD]_vars

\* C40: each returned frame's path is the image the model was shown at the
\* photo's frameIndex, and no path is undefined.
C40_PathIsShownImage ==
  \A i \in 1..Len(qInput.frames) :
    /\ ~IsNull(qInput.frames[i].path)
    /\ qInput.frames[i].path =
         Some(selectDistributedFrames(fixed.frames, MaxAnalyzed)
                [fixed.data.photos[1][i].frameIndex[1] + 1])

====
